---- MODULE Spec2Model ----
(***************************************************************************)
(* Model of the otel-lgtm-proxy request pipeline: the logs handler         *)
(* (internal/handler/logs.go), the generic Processor (package processor:   *)
(* New, Partition, Dispatch, send) and the header composer                 *)
(* (internal/util/request/request.go).                                     *)
(*                                                                         *)
(* Telemetry items are heap objects addressed by a pointer (a number);     *)
(* buckets hold pointers, as the Go maps hold []*ResourceLogs.             *)
(***************************************************************************)
EXTENDS Bags, FiniteSets, Integers, Sequences, TLC

VARIABLES
    server,         \* the listener harness of main: signal, serve loop, exit
    ctxDone,        \* r.Context() of the inbound request is cancelled
    cfg,            \* *config.Config: Tenant settings and the endpoints
    body,           \* inbound request: its path, content type and body
    heap,           \* pointer -> ResourceLogs object (its Resource)
    resources,      \* data.GetResourceLogs(): sequence of pointers
    pc,             \* position of the handler goroutine
    tenantMap,      \* map[string][]T built by Partition
    warns,          \* WARN records Partition handed to the logger, in order
    toSpawn,        \* tenants the Dispatch loop has not ranged over yet
    waitGroup,      \* sync.WaitGroup counter of Dispatch
    wpc,            \* tenant -> position of that tenant's worker goroutine
    sendRet,        \* tenant -> what send returned to the worker
    sent,           \* bag of requests handed to client.Do
    proxyRecordsMetric,   \* counter: attribute set -> value
    proxyRequestsMetric,  \* counter: attribute set -> value
    proxyLatencyMetric,   \* histogram: attribute set -> number of samples
    proxyResponseCodeMetric,  \* counter of the per-signal packages
    logs,           \* bag of log records emitted by the workers
    span,           \* tenant -> status of that worker's dispatch span
    lateRecords,    \* outcome records written after Dispatch had returned
    dispatchRet,    \* value returned by Dispatch
    transport,      \* client.Transport of the injected *http.Client
    response        \* what the handler wrote to the ResponseWriter

vars == <<server, ctxDone, cfg, body, heap, resources, pc, tenantMap, warns,
          toSpawn, waitGroup, wpc, sendRet, sent, proxyRecordsMetric,
          proxyRequestsMetric, proxyLatencyMetric, proxyResponseCodeMetric,
          logs, span, lateRecords, dispatchRet, transport, response>>

(***************************************************************************)
(* Bounds of the model.                                                    *)
(***************************************************************************)
MaxAttrs == 2       \* attributes on the resource of a single-item batch
MaxItems == 3       \* items in a multi-item batch

(***************************************************************************)
(* Generic helpers.                                                        *)
(***************************************************************************)
Range(s) == {s[i] : i \in 1..Len(s)}

SeqsUpTo(S, n) == UNION {[1..k -> S] : k \in 0..n}

RECURSIVE SumOver(_, _)
SumOver(S, f) ==
    IF S = {} THEN 0
    ELSE LET x == CHOOSE y \in S : TRUE IN f[x] + SumOver(S \ {x}, f)

\* index of the first element of s satisfying Test, 0 when there is none
FirstIndex(s, Test(_)) ==
    IF \E i \in 1..Len(s) : Test(s[i])
    THEN CHOOSE i \in 1..Len(s) : Test(s[i]) /\ \A j \in 1..(i-1) : ~Test(s[j])
    ELSE 0

(***************************************************************************)
(* OTLP data: AnyValue, KeyValue, Resource.                                *)
(***************************************************************************)
StringValue(s) == [kind |-> "string", s |-> s, i |-> 0]
IntValue(n)    == [kind |-> "int", s |-> "", i |-> n]

\* AnyValue.GetStringValue: the string of a string value, "" for any other
GetStringValue(v) == IF v.kind = "string" THEN v.s ELSE ""

KeyValue(k, v) == [Key |-> k, Value |-> v]

\* a *resourcepb.Resource; nil is a Resource that is not present
NilResource == [present |-> FALSE, Attributes |-> <<>>]
Resource(attrs) == [present |-> TRUE, Attributes |-> attrs]

\* Resource.GetAttributes is nil-safe: nil receiver gives no attributes
GetAttributes(r) == IF r.present THEN r.Attributes ELSE <<>>

\* getResource closure of the logs handler: rl.GetResource()
getResource(h, p) == h[p].Resource

(***************************************************************************)
(* Tenant resolution, the first half of Partition's loop body.             *)
(***************************************************************************)
\* "First, check for the dedicated tenant label": the value of the first
\* attribute whose key is the label, whatever that value is
LabelTenant(c, attrs) ==
    IF c.Tenant.Label # ""
    THEN LET i == FirstIndex(attrs, LAMBDA a : a.Key = c.Tenant.Label)
         IN IF i = 0 THEN "" ELSE GetStringValue(attrs[i].Value)
    ELSE ""

\* "If not found and we have additional labels, check those": the value of
\* the first attribute whose key is contained in Tenant.Labels
LabelsTenant(c, attrs, tenant) ==
    IF tenant = "" /\ Len(c.Tenant.Labels) > 0
    THEN LET i == FirstIndex(attrs, LAMBDA a : a.Key \in Range(c.Tenant.Labels))
         IN IF i = 0 THEN tenant ELSE GetStringValue(attrs[i].Value)
    ELSE tenant

\* a resolution that consults the fallback labels before the dedicated label
ResolveTenant_FallbackFirst(c, attrs) ==
    LET t == LabelsTenant(c, attrs, "")
    IN  IF t = "" THEN LabelTenant(c, attrs) ELSE t

\* the value of the local variable tenant when the loop body reaches
\* "if tenant == \"\""
ResolveTenant(c, attrs) == LabelsTenant(c, attrs, LabelTenant(c, attrs))

(***************************************************************************)
(* Processor.Partition.                                                    *)
(***************************************************************************)
\* the signal of the handler the router gives the inbound request to
signalType ==
    CASE body.Path = "/v1/logs"    -> "logs"
      [] body.Path = "/v1/metrics" -> "metrics"
      [] body.Path = "/v1/traces"  -> "traces"

\* the endpoint the handler of the signal passes on: &h.config.Logs,
\* &h.config.Metrics or &h.config.Traces
endpoint(c) ==
    CASE signalType = "logs"    -> c.Logs
      [] signalType = "metrics" -> c.Metrics
      [] signalType = "traces"  -> c.Traces

\* log.String("signal.type", p.signalType)
signalTypeLogAttr == <<"signal.type", signalType>>

\* the record logger.Warn builds for an item without a tenant
WarnRecord ==
    [level |-> "WARN",
     msg   |-> "No tenant found in attributes and no default tenant configured",
     attrs |-> {signalTypeLogAttr}]

EmptyMap == <<>>

\* a map update that puts the item at the front of its bucket
MapAppend_Prepend(m, k, v) ==
    IF k \in DOMAIN m THEN [m EXCEPT ![k] = <<v>> \o @]
    ELSE m @@ (k :> <<v>>)

\* a map update that stores the item instead of appending it
MapAppend_Overwrite(m, k, v) ==
    IF k \in DOMAIN m THEN [m EXCEPT ![k] = <<v>>]
    ELSE m @@ (k :> <<v>>)

\* tenantMap[tenant] = append(tenantMap[tenant], resourceData)
MapAppend(m, k, v) ==
    IF k \in DOMAIN m THEN [m EXCEPT ![k] = Append(@, v)]
    ELSE m @@ (k :> <<v>>)

\* a loop body whose drop branch lacks the continue: the item without a
\* tenant goes to the bucket of the empty key
PartitionItem_NoContinue(c, st, p) ==
    LET resource == getResource(st.heap, p)
        tenant   == ResolveTenant(c, GetAttributes(resource))
    IN  IF tenant = "" /\ c.Tenant.Default = ""
        THEN [st EXCEPT !.warns = Append(@, WarnRecord),
                        !.tenantMap = MapAppend(@, "", p)]
        ELSE [st EXCEPT !.tenantMap =
                 MapAppend(@, IF tenant = "" THEN c.Tenant.Default ELSE tenant, p)]

\* a loop body that files the item under the default tenant without
\* touching its resource
PartitionItem_NoBackfill(c, st, p) ==
    LET resource == getResource(st.heap, p)
        tenant   == ResolveTenant(c, GetAttributes(resource))
    IN  IF tenant = ""
        THEN IF c.Tenant.Default = ""
             THEN [st EXCEPT !.warns = Append(@, WarnRecord)]
             ELSE [st EXCEPT !.tenantMap = MapAppend(@, c.Tenant.Default, p)]
        ELSE [st EXCEPT !.tenantMap = MapAppend(@, tenant, p)]

\* a loop body that makes the bucket of the empty key before it drops an
\* item, and leaves that bucket without items
PartitionItem_EmptyBucketOnDrop(c, st, p) ==
    LET resource == getResource(st.heap, p)
        tenant   == ResolveTenant(c, GetAttributes(resource))
    IN  IF st.panicked THEN st
        ELSE IF tenant = ""
        THEN IF c.Tenant.Default = ""
             THEN [st EXCEPT !.warns = Append(@, WarnRecord),
                             !.tenantMap = IF "" \in DOMAIN @ THEN @
                                           ELSE @ @@ ("" :> <<>>)]
             ELSE IF ~resource.present
             THEN [st EXCEPT !.panicked = TRUE]
             ELSE [st EXCEPT
                     !.heap[p].Resource.Attributes =
                         Append(@, KeyValue(c.Tenant.Label,
                                            StringValue(c.Tenant.Default))),
                     !.tenantMap = MapAppend(@, c.Tenant.Default, p)]
        ELSE [st EXCEPT !.tenantMap = MapAppend(@, tenant, p)]

\* a loop body that puts the back-filled attribute in front of the others
PartitionItem_BackfillInFront(c, st, p) ==
    LET resource == getResource(st.heap, p)
        tenant   == ResolveTenant(c, GetAttributes(resource))
    IN  IF st.panicked THEN st
        ELSE IF tenant = ""
        THEN IF c.Tenant.Default = ""
             THEN [st EXCEPT !.warns = Append(@, WarnRecord)]
             ELSE IF ~resource.present
             THEN [st EXCEPT !.panicked = TRUE]
             ELSE [st EXCEPT
                     !.heap[p].Resource.Attributes =
                         <<KeyValue(c.Tenant.Label, StringValue(c.Tenant.Default))>> \o @,
                     !.tenantMap = MapAppend(@, c.Tenant.Default, p)]
        ELSE [st EXCEPT !.tenantMap = MapAppend(@, tenant, p)]

\* a loop body that back-fills a placeholder instead of the default tenant
PartitionItem_BackfillPlaceholder(c, st, p) ==
    LET resource == getResource(st.heap, p)
        tenant   == ResolveTenant(c, GetAttributes(resource))
    IN  IF st.panicked THEN st
        ELSE IF tenant = ""
        THEN IF c.Tenant.Default = ""
             THEN [st EXCEPT !.warns = Append(@, WarnRecord)]
             ELSE IF ~resource.present
             THEN [st EXCEPT !.panicked = TRUE]
             ELSE [st EXCEPT
                     !.heap[p].Resource.Attributes =
                         Append(@, KeyValue(c.Tenant.Label, StringValue("unknown"))),
                     !.tenantMap = MapAppend(@, c.Tenant.Default, p)]
        ELSE [st EXCEPT !.tenantMap = MapAppend(@, tenant, p)]

\* one iteration of the loop over resources; st carries the map built so
\* far, the heap, the warnings logged and whether the goroutine panicked
PartitionItem(c, st, p) ==
    LET resource == getResource(st.heap, p)
        tenant   == ResolveTenant(c, GetAttributes(resource))
    IN  IF st.panicked THEN st
        ELSE IF tenant = ""
        THEN IF c.Tenant.Default = ""
             THEN [st EXCEPT !.warns = Append(@, WarnRecord)]   \* continue
             ELSE IF ~resource.present
             THEN [st EXCEPT !.panicked = TRUE]   \* resource.Attributes on nil
             ELSE [st EXCEPT
                     !.heap[p].Resource.Attributes =
                         Append(@, KeyValue(c.Tenant.Label,
                                            StringValue(c.Tenant.Default))),
                     !.tenantMap = MapAppend(@, c.Tenant.Default, p)]
        ELSE [st EXCEPT !.tenantMap = MapAppend(@, tenant, p)]

RECURSIVE PartitionLoop(_, _, _, _)
PartitionLoop(c, st, rs, i) ==
    IF i > Len(rs) THEN st
    ELSE PartitionLoop(c, PartitionItem(c, st, rs[i]), rs, i + 1)

Partition(c, h, rs) ==
    PartitionLoop(c, [tenantMap |-> EmptyMap, heap |-> h, warns |-> <<>>,
                      panicked |-> FALSE], rs, 1)

(***************************************************************************)
(* Header composer: request.AddHeaders.  Configured strings that the code  *)
(* splits are held as sequences of one-character strings.                  *)
(***************************************************************************)
RECURSIVE Join(_)
Join(chars) == IF chars = <<>> THEN "" ELSE Head(chars) \o Join(Tail(chars))

\* strings.Split(s, sep): the pieces between separators, one (empty) piece
\* for the empty string
RECURSIVE Split(_, _)
Split(s, sep) ==
    LET i == FirstIndex(s, LAMBDA ch : ch = sep)
    IN  IF i = 0 THEN <<s>>
        ELSE <<SubSeq(s, 1, i - 1)>> \o Split(SubSeq(s, i + 1, Len(s)), sep)

\* a cut at the last separator
SplitN2_LastSeparator(s, sep) ==
    LET at == {i \in 1..Len(s) : s[i] = sep}
    IN  IF at = {} THEN <<s>>
        ELSE LET i == CHOOSE i \in at : \A j \in at : j <= i
             IN  <<SubSeq(s, 1, i - 1), SubSeq(s, i + 1, Len(s))>>

\* strings.SplitN(s, sep, 2): cut at the first separator only
SplitN2(s, sep) ==
    LET i == FirstIndex(s, LAMBDA ch : ch = sep)
    IN  IF i = 0 THEN <<s>>
        ELSE <<SubSeq(s, 1, i - 1), SubSeq(s, i + 1, Len(s))>>

\* fmt.Sprintf(format, tenant) for a format made of literals and %s verbs:
\* the first verb takes the operand, a further verb has none, and an
\* operand no verb took is reported at the end
RECURSIVE SprintfFrom(_, _, _)
SprintfFrom(format, tenant, used) ==
    IF format = <<>>
    THEN IF used THEN "" ELSE "%!(EXTRA string=" \o tenant \o ")"
    ELSE IF Head(format) = "%s"
         THEN (IF used THEN "%!s(MISSING)" ELSE tenant)
              \o SprintfFrom(Tail(format), tenant, TRUE)
         ELSE Head(format) \o SprintfFrom(Tail(format), tenant, used)

Sprintf(format, tenant) == SprintfFrom(format, tenant, FALSE)

\* textproto.CanonicalMIMEHeaderKey on the header names the model uses
CanonicalHeaderKey(k) ==
    CASE k = "X-Scope-OrgID" -> "X-Scope-Orgid"
      [] k = "x-scope-orgid" -> "X-Scope-Orgid"
      [] k = "content-type"  -> "Content-Type"
      [] k = "no"            -> "No"
      [] OTHER -> k

\* http.Header is a map from canonical key to the list of its values
HeaderSet(h, k, v) ==
    LET ck == CanonicalHeaderKey(k)
    IN  IF ck \in DOMAIN h THEN [h EXCEPT ![ck] = <<v>>] ELSE h @@ (ck :> <<v>>)

HeaderAdd(h, k, v) ==
    LET ck == CanonicalHeaderKey(k)
    IN  IF ck \in DOMAIN h THEN [h EXCEPT ![ck] = Append(@, v)]
        ELSE h @@ (ck :> <<v>>)

\* Header.Get: the first value of the key, "" when absent
HeaderGet(h, k) ==
    LET ck == CanonicalHeaderKey(k)
    IN  IF ck \in DOMAIN h /\ Len(h[ck]) > 0 THEN h[ck][1] ELSE ""

RECURSIVE AddCustomHeaders(_, _)
AddCustomHeaders(h, customHeaders) ==
    IF customHeaders = <<>> THEN h
    ELSE LET kv == SplitN2(Head(customHeaders), "=")
         IN  AddCustomHeaders(
                 IF Len(kv) = 2 THEN HeaderAdd(h, Join(kv[1]), Join(kv[2]))
                 ELSE h,
                 Tail(customHeaders))

AddHeaders(tenant, header, config, headers) ==
    AddCustomHeaders(
        HeaderAdd(HeaderSet(header, "Content-Type", "application/x-protobuf"),
                  config.Tenant.Header,
                  Sprintf(config.Tenant.Format, tenant)),
        Split(headers, ","))

(***************************************************************************)
(* Wire codec: the marshalResources closure of the logs handler.  A        *)
(* LogsData message is the sequence of its encoded ResourceLogs; the       *)
(* pointer stands for the scope logs the item carries.                     *)
(***************************************************************************)
EncodeResource(r) ==
    IF r.present THEN <<"resource", r.Attributes>> ELSE <<>>

\* the repeated field of LogsData, MetricsData or TracesData
ResourceField ==
    CASE signalType = "logs"    -> "resource_logs"
      [] signalType = "metrics" -> "resource_metrics"
      [] signalType = "traces"  -> "resource_spans"

EncodeResourceLogs(h, p) == <<ResourceField, EncodeResource(h[p].Resource), p>>

marshalResources(h, rs) == [i \in 1..Len(rs) |-> EncodeResourceLogs(h, rs[i])]

(***************************************************************************)
(* Self-observability helpers.                                             *)
(***************************************************************************)
signalTypeAttr == <<"signal.type", signalType>>

tenantAttribute(tenant) == <<"signal.tenant", tenant>>

\* attribute.String("signal.response.status.code", strconv.Itoa(code))
respAttr(code) == <<"signal.response.status.code", ToString(code)>>

\* Int64Counter.Add / Int64Histogram.Record under an attribute set
CounterAdd(counter, attrs, n) ==
    IF attrs \in DOMAIN counter THEN [counter EXCEPT ![attrs] = @ + n]
    ELSE counter @@ (attrs :> n)

CounterValue(counter, attrs) ==
    IF attrs \in DOMAIN counter THEN counter[attrs] ELSE 0

LogRecord(level, msg) == [level |-> level, msg |-> msg]

Emit(bag, level, msg) == bag (+) SetToBag({LogRecord(level, msg)})

(***************************************************************************)
(* Configurations and inbound batches the model ranges over.               *)
(***************************************************************************)
\* Tenant.Format is a format string, held as its sequence of tokens: the
\* verb "%s" or a literal piece
Formats == {<<"%s">>, <<"%s", "-prod">>}

TenantConfigs ==
    [Label   : {"", "tenant.id"},
     Labels  : {<<>>, <<"tenantId">>, <<"tenantId", "tenant_id">>,
                <<"tenant_id", "tenantId">>},
     Format  : {<<"%s">>},
     Header  : {"X-Scope-OrgID"},
     Default : {"", "default"}]

PlainEndpoint ==
    [Address |-> "http://logs", Headers |-> <<>>,
     TLS |-> [CertFile |-> "", KeyFile |-> "", CAFile |-> ""]]

MetricsEndpoint ==
    [Address |-> "http://metrics", Headers |-> <<>>,
     TLS |-> [CertFile |-> "", KeyFile |-> "", CAFile |-> ""]]

TracesEndpoint ==
    [Address |-> "http://traces",
     Headers |-> <<"X", "-", "E", "n", "v", "=", "t">>,
     TLS |-> [CertFile |-> "", KeyFile |-> "", CAFile |-> ""]]

Keys   == {"tenant.id", "tenantId", "tenant_id", "service.name"}
Values == {StringValue("a"), StringValue("b"), StringValue(""), IntValue(7)}
Attrs  == {KeyValue(k, v) : k \in Keys, v \in Values}

\* batches of one item whose resource carries up to MaxAttrs attributes
RichBatches == {<<Resource(as)>> : as \in SeqsUpTo(Attrs, MaxAttrs)}

\* resources with at most one attribute, and the item without a Resource
SimpleResources ==
    {NilResource, Resource(<<>>)} \cup
    {Resource(<<KeyValue(k, StringValue(v))>>) :
        k \in {"tenant.id", "tenantId", "service.name"}, v \in {"a", "b", ""}}

SimpleBatches == SeqsUpTo(SimpleResources, MaxItems)

HeapOf(batch) == [p \in 1..Len(batch) |-> [Resource |-> batch[p]]]
PointersOf(batch) == [p \in 1..Len(batch) |-> p]

NoWorkers == <<>>

\* a worker that has not got a result from send, a span not started yet
NoReturn == [kind |-> "none", err |-> "", StatusCode |-> 0]
NoSpan == [status |-> "none", description |-> ""]

\* an inbound POST to path declaring the content type ct, whose body is
\* the encoding of batch in the wire format encoding, "binary" or "json"
RequestAs(path, ct, encoding, batch) ==
    [Path |-> path, ContentType |-> ct, encoding |-> encoding, valid |-> TRUE,
     batch |-> batch]

\* an inbound POST to path whose body is the OTLP binary encoding of batch
Request(path, batch) ==
    RequestAs(path, "application/x-protobuf", "binary", batch)

\* an inbound POST to path whose body is not OTLP ("not protobuf")
BadRequest(path) ==
    [Path |-> path, ContentType |-> "application/x-protobuf",
     encoding |-> "binary", valid |-> FALSE, batch |-> <<>>]

ValidBody(batch) == Request("/v1/logs", batch)

InvalidBody == BadRequest("/v1/logs")

\* the harness while it serves: no signal received, the serve loop running
Serving ==
    [main |-> "waiting", serve |-> "serving", timedOut |-> FALSE, exited |-> FALSE]

\* the state of a handler at position pc0 serving a request that carries
\* one of Bodies; from "constructed" on the batch is decoded on the heap
InitWith(Configs, Endpoints, Bodies, pc0) ==
    /\ server = Serving
    /\ ctxDone = FALSE
    /\ cfg \in {[Tenant |-> t, Logs |-> e, Metrics |-> MetricsEndpoint,
                  Traces |-> TracesEndpoint] : t \in Configs, e \in Endpoints}
    /\ body \in Bodies
    /\ heap = IF pc0 = "start" THEN <<>> ELSE HeapOf(body.batch)
    /\ resources = IF pc0 = "start" THEN <<>> ELSE PointersOf(body.batch)
    /\ pc = pc0
    /\ tenantMap = EmptyMap
    /\ warns = <<>>
    /\ toSpawn = {}
    /\ waitGroup = 0
    /\ wpc = NoWorkers
    /\ sendRet = NoWorkers
    /\ sent = EmptyBag
    /\ proxyRecordsMetric = <<>>
    /\ proxyRequestsMetric = <<>>
    /\ proxyLatencyMetric = <<>>
    /\ proxyResponseCodeMetric = <<>>
    /\ logs = EmptyBag
    /\ span = NoWorkers
    /\ lateRecords = 0
    /\ dispatchRet = "none"
    /\ transport = "default"
    /\ response = [status |-> 0, body |-> ""]

\* the handler evaluates proc.Partition(ctx, data.GetResourceLogs())
DoPartition ==
    /\ pc = "constructed"
    /\ LET st == Partition(cfg, heap, resources)
       IN  IF st.panicked
           THEN /\ pc' = "panicked"
                /\ heap' = st.heap
                /\ warns' = st.warns
                /\ UNCHANGED <<tenantMap, toSpawn, wpc, sendRet, span>>
           ELSE /\ pc' = "partitioned"
                /\ heap' = st.heap
                /\ tenantMap' = st.tenantMap
                /\ warns' = st.warns
                /\ toSpawn' = DOMAIN st.tenantMap
                /\ wpc' = [t \in DOMAIN st.tenantMap |-> "none"]
                /\ sendRet' = [t \in DOMAIN st.tenantMap |-> NoReturn]
                /\ span' = [t \in DOMAIN st.tenantMap |-> NoSpan]
    /\ UNCHANGED <<server, ctxDone, proxyResponseCodeMetric, cfg, body, resources, waitGroup, sent, proxyRecordsMetric,
                   proxyRequestsMetric, proxyLatencyMetric, logs, lateRecords,
                   dispatchRet, transport, response>>

(***************************************************************************)
(* Partition on its own: every tenant configuration, batches of one item   *)
(* with a rich resource and batches of several simple items.               *)
(***************************************************************************)
InitPartition ==
    InitWith(TenantConfigs, {PlainEndpoint},
             {ValidBody(b) : b \in RichBatches \cup SimpleBatches},
             "constructed")

NextPartition == DoPartition

SpecPartition == InitPartition /\ [][NextPartition]_vars

(***************************************************************************)
(* Properties of Partition, checked under SpecPartition.                   *)
(***************************************************************************)
\* the resource of item p as it arrived, before Partition touched it
Received(p) == body.batch[p]

\* the tenant Partition's loop body settles on for item p: the resolved
\* attribute value, else the default, "" when the item is dropped
ResolvedTenantOf(p) ==
    LET t == ResolveTenant(cfg, GetAttributes(Received(p)))
    IN  IF t = "" THEN cfg.Tenant.Default ELSE t

\* how many times pointer p occurs in bucket t
Occurrences(t, p) == Cardinality({i \in 1..Len(tenantMap[t]) : tenantMap[t][i] = p})

BucketsHolding(p) == {t \in DOMAIN tenantMap : Occurrences(t, p) > 0}

Dropped == {p \in Range(resources) : ResolvedTenantOf(p) = ""}

BucketSizes == [t \in DOMAIN tenantMap |-> Len(tenantMap[t])]

FirstWithKey(attrs, k) ==
    {attrs[i] : i \in {j \in 1..Len(attrs) :
                          /\ attrs[j].Key = k
                          /\ \A l \in 1..(j-1) : attrs[l].Key # k}}

\* the non-empty string value key k yields on attrs, "" when it yields nothing
Yield(attrs, k) ==
    IF \E a \in FirstWithKey(attrs, k) : a.Value.kind = "string" /\ a.Value.s # ""
    THEN (CHOOSE a \in FirstWithKey(attrs, k) : TRUE).Value.s
    ELSE ""

PrimaryYield(p) ==
    IF cfg.Tenant.Label = "" THEN ""
    ELSE Yield(GetAttributes(Received(p)), cfg.Tenant.Label)

InBucket(p, t) == t \in DOMAIN tenantMap /\ p \in Range(tenantMap[t])

\* C8: a resource whose first attribute under the configured primary key has
\* a non-empty string value is bucketed under that value, whatever fallback
\* attributes it carries and wherever they sit, and is not back-filled.
C8_PrimaryKeyWins ==
    pc = "partitioned" =>
        \A p \in Range(resources) :
            PrimaryYield(p) # "" =>
                /\ InBucket(p, PrimaryYield(p))
                /\ heap[p].Resource = Received(p)

\* a fallback attribute with another value precedes the primary attribute
C8_Witness ==
    /\ pc = "partitioned"
    /\ \E p \in Range(resources) :
          LET attrs == GetAttributes(Received(p))
          IN  /\ Len(attrs) = 2
              /\ attrs[1].Key \in Range(cfg.Tenant.Labels)
              /\ GetStringValue(attrs[1].Value) = "b"
              /\ attrs[2].Key = cfg.Tenant.Label
              /\ PrimaryYield(p) = "a"
              /\ InBucket(p, "a")

\* the configured fallback keys that yield a value on item p
YieldingFallbacks(p) ==
    {j \in 1..Len(cfg.Tenant.Labels) :
        Yield(GetAttributes(Received(p)), cfg.Tenant.Labels[j]) # ""}

\* the value of the yielding fallback key that comes first in the
\* configured list
FirstConfiguredFallback(p) ==
    LET j == CHOOSE k \in YieldingFallbacks(p) :
                 \A l \in YieldingFallbacks(p) : k <= l
    IN  Yield(GetAttributes(Received(p)), cfg.Tenant.Labels[j])

\* C9: when the primary key yields nothing and the resource carries several
\* configured fallback keys with non-empty string values, the item is
\* bucketed under the value of the key that is first in the configured list.
C9_FallbackConfiguredOrder ==
    pc = "partitioned" =>
        \A p \in Range(resources) :
            (PrimaryYield(p) = "" /\ Cardinality(YieldingFallbacks(p)) >= 2)
                => InBucket(p, FirstConfiguredFallback(p))

\* the values the configured keys (primary and fallbacks) yield on item p
CandidateValues(p) ==
    {v \in {PrimaryYield(p)} \cup
           {Yield(GetAttributes(Received(p)), cfg.Tenant.Labels[j]) :
               j \in 1..Len(cfg.Tenant.Labels)} : v # ""}

\* C10: an attribute with an empty or non-string value counts as absent at
\* its key: as long as some configured key yields a non-empty string value
\* the item is bucketed under such a value, and it is neither back-filled
\* with the default nor dropped.
C10_EmptyValueIsAbsent ==
    pc = "partitioned" =>
        \A p \in Range(resources) :
            CandidateValues(p) # {} =>
                /\ \E v \in CandidateValues(p) : InBucket(p, v)
                /\ heap[p].Resource = Received(p)

(***************************************************************************)
(* Handlers.Logs up to the call of Partition: decode, then build the       *)
(* processor.                                                              *)
(***************************************************************************)
\* proto.Unmarshal: protojson for the content type application/json, binary
\* protobuf for every other; "" when the body decodes, the decoder's message
\* if not
UnmarshalErr(b) ==
    IF b.ContentType = "application/json"
    THEN IF b.valid /\ b.encoding = "json" THEN ""
         ELSE "proto: syntax error (line 1:1): invalid value"
    ELSE IF b.valid /\ b.encoding = "binary" THEN ""
         ELSE "proto: cannot parse invalid wire-format data"

\* http.Error(w, msg, code)
HttpError(msg, code) == [status |-> code, body |-> msg \o "\n"]

HandlerUnmarshal ==
    /\ pc = "start"
    /\ LET err == UnmarshalErr(body)
       IN  IF err # ""
           THEN /\ logs' = Emit(logs, "ERROR", err)
                /\ response' = HttpError(err, 400)
                /\ pc' = "done"
                /\ UNCHANGED <<heap, resources>>
           ELSE /\ heap' = HeapOf(body.batch)
                /\ resources' = PointersOf(body.batch)
                /\ pc' = "decoded"
                /\ UNCHANGED <<logs, response>>
    /\ UNCHANGED <<server, ctxDone, proxyResponseCodeMetric, cfg, body, tenantMap, warns, toSpawn, waitGroup, wpc,
                   sendRet, sent, proxyRecordsMetric, proxyRequestsMetric,
                   proxyLatencyMetric, span, lateRecords, dispatchRet,
                   transport>>

\* TLS switched on by any one of the three files
TLSEnabled_AnyFile(tls) == tls.CertFile # "" \/ tls.KeyFile # "" \/ tls.CAFile # ""

\* cert.TLSEnabled
TLSEnabled(tls) == tls.CertFile # "" /\ tls.KeyFile # "" /\ tls.CAFile # ""

\* processor.New as called by the handler for every request; loading the
\* key pair and the CA file succeeds or fails with the files on disk
HandlerNew ==
    /\ pc = "decoded"
    /\ IF TLSEnabled(endpoint(cfg).TLS)
       THEN \/ /\ transport' = "tls"
               /\ pc' = "constructed"
               /\ UNCHANGED <<logs, response>>
            \/ /\ logs' = Emit(logs, "ERROR", "failed to create TLS config")
               /\ response' = HttpError("failed to create TLS config", 500)
               /\ pc' = "done"
               /\ UNCHANGED transport
       ELSE /\ pc' = "constructed"
            /\ UNCHANGED <<transport, logs, response>>
    /\ UNCHANGED <<server, ctxDone, proxyResponseCodeMetric, cfg, body, heap, resources, tenantMap, warns, toSpawn,
                   waitGroup, wpc, sendRet, sent, proxyRecordsMetric,
                   proxyRequestsMetric, proxyLatencyMetric, span, lateRecords,
                   dispatchRet>>

(***************************************************************************)
(* Processor.Dispatch: the loop that starts one goroutine per map entry,   *)
(* the goroutines, and the wait.                                           *)
(***************************************************************************)
StatusCodes == {200, 503}

SpanStarted == [status |-> "Unset", description |-> ""]
SpanStatus(code, description) == [status |-> code, description |-> description]

\* one iteration of "for tenant, resources := range tenantMap"
DispatchGo(t) ==
    /\ pc = "partitioned"
    /\ t \in toSpawn
    /\ toSpawn' = toSpawn \ {t}
    /\ span' = [span EXCEPT ![t] = SpanStarted]
    /\ waitGroup' = waitGroup + 1
    /\ wpc' = [wpc EXCEPT ![t] = "start"]
    /\ UNCHANGED <<server, ctxDone, proxyResponseCodeMetric, cfg, body, heap, resources, pc, tenantMap, warns, sendRet,
                   sent, proxyRecordsMetric, proxyRequestsMetric,
                   proxyLatencyMetric, logs, lateRecords, dispatchRet,
                   transport, response>>

\* a request whose body is marshalled from every decoded item instead of
\* the bucket passed to the goroutine
NewRequest_AllItems(c, h, tenant, rs) ==
    [Context |-> "r.Context",
     Method |-> "POST",
     URL    |-> endpoint(c).Address,
     Header |-> AddHeaders(tenant, <<>>, c, endpoint(c).Headers),
     Body   |-> marshalResources(h, [p \in 1..Len(h) |-> p])]

\* the request send builds for a bucket
NewRequest(c, h, tenant, rs) ==
    [Context |-> "r.Context",
     Method |-> "POST",
     URL    |-> endpoint(c).Address,
     Header |-> AddHeaders(tenant, <<>>, c, endpoint(c).Headers),
     Body   |-> marshalResources(h, rs)]

SendError(msg) == [kind |-> "error", err |-> msg, StatusCode |-> 0]
SendResponse(code) == [kind |-> "response", err |-> "", StatusCode |-> code]

\* a send that hands a request to the executor although marshal failed
WorkerSend_SendsAfterMarshalError(t) ==
    /\ t \in DOMAIN wpc
    /\ wpc[t] = "start"
    /\ sent' = sent (+) SetToBag({NewRequest(cfg, heap, t, tenantMap[t])})
    /\ \/ /\ sendRet' = [sendRet EXCEPT
                           ![t] = SendError("failed to marshal data: marshal error")]
          /\ wpc' = [wpc EXCEPT ![t] = "returned"]
       \/ /\ wpc' = [wpc EXCEPT ![t] = "inflight"]
          /\ UNCHANGED sendRet
    /\ UNCHANGED <<server, ctxDone, proxyResponseCodeMetric, cfg, body, heap,
                   resources, pc, tenantMap, warns, toSpawn, waitGroup,
                   proxyRecordsMetric, proxyRequestsMetric, proxyLatencyMetric,
                   logs, span, lateRecords, dispatchRet, transport, response>>

\* a send that stamps the tenant on every item of its bucket before it
\* marshals them
WorkerSend_StampsTenant(t) ==
    /\ t \in DOMAIN wpc
    /\ wpc[t] = "start"
    /\ heap' = [p \in DOMAIN heap |->
                  IF \E i \in 1..Len(tenantMap[t]) : tenantMap[t][i] = p
                  THEN [Resource |->
                           Resource(<<KeyValue("signal.tenant", StringValue(t))>>)]
                  ELSE heap[p]]
    /\ \/ /\ sendRet' = [sendRet EXCEPT
                           ![t] = SendError("failed to marshal data: marshal error")]
          /\ wpc' = [wpc EXCEPT ![t] = "returned"]
          /\ UNCHANGED sent
       \/ /\ sent' = sent (+) SetToBag({NewRequest(cfg, heap', t, tenantMap[t])})
          /\ wpc' = [wpc EXCEPT ![t] = "inflight"]
          /\ UNCHANGED sendRet
    /\ UNCHANGED <<server, ctxDone, proxyResponseCodeMetric, cfg, body,
                   resources, pc, tenantMap, warns, toSpawn, waitGroup,
                   proxyRecordsMetric, proxyRequestsMetric, proxyLatencyMetric,
                   logs, span, lateRecords, dispatchRet, transport, response>>

\* send up to the call of client.Do: marshal, build the request, add headers
WorkerSend(t) ==
    /\ t \in DOMAIN wpc
    /\ wpc[t] = "start"
    /\ \/ /\ sendRet' = [sendRet EXCEPT
                           ![t] = SendError("failed to marshal data: marshal error")]
          /\ wpc' = [wpc EXCEPT ![t] = "returned"]
          /\ UNCHANGED sent
       \/ /\ sent' = sent (+) SetToBag({NewRequest(cfg, heap, t, tenantMap[t])})
          /\ wpc' = [wpc EXCEPT ![t] = "inflight"]
          /\ UNCHANGED sendRet
    /\ UNCHANGED <<server, ctxDone, proxyResponseCodeMetric, cfg, body, heap, resources, pc, tenantMap, warns, toSpawn,
                   waitGroup, proxyRecordsMetric, proxyRequestsMetric,
                   proxyLatencyMetric, logs, span, lateRecords, dispatchRet,
                   transport, response>>

\* ctx.Done() of the context a request was built with is closed; the
\* background context is never done
ContextDone(ctx) == ctx = "r.Context" /\ ctxDone

\* the client of the inbound request goes away: r.Context() is cancelled
CancelInbound ==
    /\ ~ctxDone
    /\ pc \notin {"done", "panicked"}
    /\ ctxDone' = TRUE
    /\ UNCHANGED <<server, cfg, body, heap, resources, pc, tenantMap, warns,
                   toSpawn, waitGroup, wpc, sendRet, sent, proxyRecordsMetric,
                   proxyRequestsMetric, proxyLatencyMetric,
                   proxyResponseCodeMetric, logs, span, lateRecords,
                   dispatchRet, transport, response>>

\* an executor call that is tried once more after a transport failure
ClientDo_Retry(t) ==
    /\ t \in DOMAIN wpc
    /\ wpc[t] = "inflight"
    /\ \/ /\ IF BagCardinality(sent) <= Cardinality(DOMAIN wpc)
             THEN /\ wpc' = [wpc EXCEPT ![t] = "start"]
                  /\ UNCHANGED sendRet
             ELSE /\ sendRet' = [sendRet EXCEPT
                       ![t] = SendError("failed to send request: transport error")]
                  /\ wpc' = [wpc EXCEPT ![t] = "returned"]
          /\ UNCHANGED proxyLatencyMetric
       \/ \E code \in StatusCodes :
             /\ proxyLatencyMetric' =
                    CounterAdd(proxyLatencyMetric,
                               {respAttr(code), signalTypeAttr, tenantAttribute(t)}, 1)
             /\ sendRet' = [sendRet EXCEPT ![t] = SendResponse(code)]
             /\ wpc' = [wpc EXCEPT ![t] = "returned"]
    /\ UNCHANGED <<server, ctxDone, proxyResponseCodeMetric, cfg, body, heap, resources, pc, tenantMap, warns, toSpawn,
                   waitGroup, sent, proxyRecordsMetric, proxyRequestsMetric,
                   logs, span, lateRecords, dispatchRet, transport, response>>

\* a send that times the executor call before it looks at the error
ClientDo_TimesFailures(t) ==
    /\ t \in DOMAIN wpc
    /\ wpc[t] = "inflight"
    /\ \/ /\ sendRet' = [sendRet EXCEPT
                           ![t] = SendError("failed to send request: transport error")]
          /\ proxyLatencyMetric' =
                 CounterAdd(proxyLatencyMetric,
                            {signalTypeAttr, tenantAttribute(t)}, 1)
       \/ \E code \in StatusCodes :
             /\ proxyLatencyMetric' =
                    CounterAdd(proxyLatencyMetric,
                               {respAttr(code), signalTypeAttr, tenantAttribute(t)}, 1)
             /\ sendRet' = [sendRet EXCEPT ![t] = SendResponse(code)]
    /\ wpc' = [wpc EXCEPT ![t] = "returned"]
    /\ UNCHANGED <<server, ctxDone, proxyResponseCodeMetric, cfg, body, heap,
                   resources, pc, tenantMap, warns, toSpawn, waitGroup, sent,
                   proxyRecordsMetric, proxyRequestsMetric, logs, span,
                   lateRecords, dispatchRet, transport, response>>

\* client.Do returns to send: a transport failure (the only outcome once
\* the request's context is done), or a response of any status, for which
\* send records the latency and returns the response
ClientDo(t) ==
    /\ t \in DOMAIN wpc
    /\ wpc[t] = "inflight"
    /\ \/ /\ sendRet' = [sendRet EXCEPT
                           ![t] = SendError("failed to send request: transport error")]
          /\ UNCHANGED proxyLatencyMetric
       \/ \E code \in StatusCodes :
             /\ ~ContextDone(NewRequest(cfg, heap, t, tenantMap[t]).Context)
             /\ proxyLatencyMetric' =
                    CounterAdd(proxyLatencyMetric,
                               {respAttr(code), signalTypeAttr, tenantAttribute(t)}, 1)
             /\ sendRet' = [sendRet EXCEPT ![t] = SendResponse(code)]
    /\ wpc' = [wpc EXCEPT ![t] = "returned"]
    /\ UNCHANGED <<server, ctxDone, proxyResponseCodeMetric, cfg, body, heap, resources, pc, tenantMap, warns, toSpawn,
                   waitGroup, sent, proxyRecordsMetric, proxyRequestsMetric,
                   logs, span, lateRecords, dispatchRet, transport, response>>

\* a goroutine whose failure cancels the peers that have not sent yet
WorkerRecord_CancelPeers(t) ==
    /\ t \in DOMAIN wpc
    /\ wpc[t] = "returned"
    /\ LET n == Len(tenantMap[t])
           ret == sendRet[t]
           cancelled == {u \in DOMAIN wpc \ {t} : wpc[u] = "start"}
       IN  IF ret.kind = "error"
           THEN /\ proxyRecordsMetric' =
                       CounterAdd(proxyRecordsMetric,
                                  {tenantAttribute(t), signalTypeAttr}, n)
                /\ UNCHANGED proxyRequestsMetric
                /\ logs' = Emit(logs, "ERROR", ret.err)
                /\ span' = [span EXCEPT ![t] = SpanStatus("Error", "failed to send")]
                /\ wpc' = [u \in DOMAIN wpc |->
                              IF u = t THEN "recorded"
                              ELSE IF u \in cancelled THEN "returned" ELSE wpc[u]]
                /\ sendRet' = [u \in DOMAIN sendRet |->
                                  IF u \in cancelled
                                  THEN SendError("failed to send request: context canceled")
                                  ELSE sendRet[u]]
           ELSE /\ proxyRecordsMetric' =
                       CounterAdd(proxyRecordsMetric,
                                  {signalTypeAttr, tenantAttribute(t),
                                   respAttr(ret.StatusCode)}, n)
                /\ proxyRequestsMetric' =
                       CounterAdd(proxyRequestsMetric,
                                  {signalTypeAttr, tenantAttribute(t),
                                   respAttr(ret.StatusCode)}, 1)
                /\ logs' = Emit(Emit(logs, "DEBUG",
                                     "sent " \o ToString(n) \o " records status "
                                     \o ToString(ret.StatusCode) \o " for tenant " \o t),
                                "TRACE", ToString(tenantMap[t]))
                /\ span' = [span EXCEPT ![t] = SpanStatus("Ok", "sent successfully")]
                /\ wpc' = [wpc EXCEPT ![t] = "recorded"]
                /\ UNCHANGED sendRet
    /\ lateRecords' = IF dispatchRet # "none" THEN lateRecords + 1 ELSE lateRecords
    /\ UNCHANGED <<server, ctxDone, proxyResponseCodeMetric, cfg, body, heap, resources, pc, tenantMap, warns, toSpawn,
                   waitGroup, sent, proxyLatencyMetric, dispatchRet,
                   transport, response>>

\* a goroutine that takes a response outside 2xx for a failed send
WorkerRecord_Non2xxAsFailure(t) ==
    /\ t \in DOMAIN wpc
    /\ wpc[t] = "returned"
    /\ LET n == Len(tenantMap[t])
           ret == sendRet[t]
       IN  IF ret.kind = "error" \/ ret.StatusCode >= 300
           THEN /\ proxyRecordsMetric' =
                       CounterAdd(proxyRecordsMetric,
                                  {tenantAttribute(t), signalTypeAttr}, n)
                /\ UNCHANGED proxyRequestsMetric
                /\ logs' = Emit(logs, "ERROR", "unexpected status")
                /\ span' = [span EXCEPT ![t] = SpanStatus("Error", "failed to send")]
           ELSE /\ proxyRecordsMetric' =
                       CounterAdd(proxyRecordsMetric,
                                  {signalTypeAttr, tenantAttribute(t),
                                   respAttr(ret.StatusCode)}, n)
                /\ proxyRequestsMetric' =
                       CounterAdd(proxyRequestsMetric,
                                  {signalTypeAttr, tenantAttribute(t),
                                   respAttr(ret.StatusCode)}, 1)
                /\ logs' = Emit(Emit(logs, "DEBUG",
                                     "sent " \o ToString(n) \o " records status "
                                     \o ToString(ret.StatusCode) \o " for tenant " \o t),
                                "TRACE", ToString(tenantMap[t]))
                /\ span' = [span EXCEPT ![t] = SpanStatus("Ok", "sent successfully")]
    /\ lateRecords' = IF dispatchRet # "none" THEN lateRecords + 1 ELSE lateRecords
    /\ wpc' = [wpc EXCEPT ![t] = "recorded"]
    /\ UNCHANGED <<server, ctxDone, proxyResponseCodeMetric, cfg, body, heap, resources, pc, tenantMap, warns, toSpawn,
                   waitGroup, sendRet, sent, proxyLatencyMetric, dispatchRet,
                   transport, response>>

\* the goroutine after send returned: counters, log and span status
WorkerRecord(t) ==
    /\ t \in DOMAIN wpc
    /\ wpc[t] = "returned"
    /\ LET n == Len(tenantMap[t])
           ret == sendRet[t]
       IN  IF ret.kind = "error"
           THEN /\ proxyRecordsMetric' =
                       CounterAdd(proxyRecordsMetric,
                                  {tenantAttribute(t), signalTypeAttr}, n)
                /\ UNCHANGED proxyRequestsMetric
                /\ logs' = Emit(logs, "ERROR", ret.err)
                /\ span' = [span EXCEPT ![t] = SpanStatus("Error", "failed to send")]
           ELSE /\ proxyRecordsMetric' =
                       CounterAdd(proxyRecordsMetric,
                                  {signalTypeAttr, tenantAttribute(t),
                                   respAttr(ret.StatusCode)}, n)
                /\ proxyRequestsMetric' =
                       CounterAdd(proxyRequestsMetric,
                                  {signalTypeAttr, tenantAttribute(t),
                                   respAttr(ret.StatusCode)}, 1)
                /\ logs' = Emit(Emit(logs, "DEBUG",
                                     "sent " \o ToString(n) \o " records status "
                                     \o ToString(ret.StatusCode) \o " for tenant " \o t),
                                "TRACE", ToString(tenantMap[t]))
                /\ span' = [span EXCEPT ![t] = SpanStatus("Ok", "sent successfully")]
    /\ lateRecords' = IF dispatchRet # "none" THEN lateRecords + 1 ELSE lateRecords
    /\ wpc' = [wpc EXCEPT ![t] = "recorded"]
    /\ UNCHANGED <<server, ctxDone, proxyResponseCodeMetric, cfg, body, heap, resources, pc, tenantMap, warns, toSpawn,
                   waitGroup, sendRet, sent, proxyLatencyMetric, dispatchRet,
                   transport, response>>

\* a goroutine that signals completion after a response only: the error
\* branch returns without wg.Done
WorkerDone_ResponseOnly(t) ==
    /\ t \in DOMAIN wpc
    /\ wpc[t] = "recorded"
    /\ sendRet[t].kind = "response"
    /\ wpc' = [wpc EXCEPT ![t] = "done"]
    /\ waitGroup' = waitGroup - 1
    /\ UNCHANGED <<server, ctxDone, proxyResponseCodeMetric, cfg, body, heap,
                   resources, pc, tenantMap, warns, toSpawn, sendRet, sent,
                   proxyRecordsMetric, proxyRequestsMetric, proxyLatencyMetric,
                   logs, span, lateRecords, dispatchRet, transport, response>>

\* defer waitGroup.Done()
WorkerDone(t) ==
    /\ t \in DOMAIN wpc
    /\ wpc[t] = "recorded"
    /\ wpc' = [wpc EXCEPT ![t] = "done"]
    /\ waitGroup' = waitGroup - 1
    /\ UNCHANGED <<server, ctxDone, proxyResponseCodeMetric, cfg, body, heap, resources, pc, tenantMap, warns, toSpawn,
                   sendRet, sent, proxyRecordsMetric, proxyRequestsMetric,
                   proxyLatencyMetric, logs, span, lateRecords, dispatchRet,
                   transport, response>>

\* a wait that does not block
WaitReturns_Always(counter) == TRUE

\* sync.WaitGroup.Wait returns when the counter is zero
WaitReturns(counter) == counter = 0

\* a Dispatch that hands a worker's send error to its caller
DispatchReturn_PropagateError ==
    /\ pc = "partitioned"
    /\ toSpawn = {}
    /\ waitGroup = 0
    /\ dispatchRet' = IF \E t \in DOMAIN sendRet : sendRet[t].kind = "error"
                      THEN "error" ELSE "nil"
    /\ pc' = "returned"
    /\ UNCHANGED <<server, ctxDone, proxyResponseCodeMetric, cfg, body, heap, resources, tenantMap, warns, toSpawn,
                   waitGroup, wpc, sendRet, sent, proxyRecordsMetric,
                   proxyRequestsMetric, proxyLatencyMetric, logs, span,
                   lateRecords, transport, response>>

\* waitGroup.Wait(); return nil
DispatchReturn ==
    /\ pc = "partitioned"
    /\ toSpawn = {}
    /\ WaitReturns(waitGroup)
    /\ dispatchRet' = "nil"
    /\ pc' = "returned"
    /\ UNCHANGED <<server, ctxDone, proxyResponseCodeMetric, cfg, body, heap, resources, tenantMap, warns, toSpawn,
                   waitGroup, wpc, sendRet, sent, proxyRecordsMetric,
                   proxyRequestsMetric, proxyLatencyMetric, logs, span,
                   lateRecords, transport, response>>

\* the handler after Dispatch returned: 202 unless Dispatch gave an error
HandlerRespond ==
    /\ pc = "returned"
    /\ response' = IF dispatchRet = "nil" THEN [status |-> 202, body |-> ""]
                   ELSE response
    /\ pc' = "done"
    /\ UNCHANGED <<server, ctxDone, proxyResponseCodeMetric, cfg, body, heap, resources, tenantMap, warns, toSpawn,
                   waitGroup, wpc, sendRet, sent, proxyRecordsMetric,
                   proxyRequestsMetric, proxyLatencyMetric, logs, span,
                   lateRecords, dispatchRet, transport>>

(***************************************************************************)
(* One inbound request served by Handlers.Logs.                            *)
(***************************************************************************)
\* tenant settings of the served proxy: the documented label and fallback
MainTenantConfigs ==
    [Label   : {"tenant.id"},
     Labels  : {<<"tenantId">>},
     Format  : Formats,
     Header  : {"X-Scope-OrgID"},
     Default : {"", "default"}]

\* an endpoint with client TLS files and the extra header "X-Env=p"
SecureEndpoint ==
    [Address |-> "https://logs", Headers |-> <<"X", "-", "E", "n", "v", "=", "p">>,
     TLS |-> [CertFile |-> "cert.pem", KeyFile |-> "key.pem", CAFile |-> "ca.pem"]]

MainResources ==
    {NilResource,
     Resource(<<KeyValue("tenant.id", StringValue("a"))>>),
     Resource(<<KeyValue("tenantId", StringValue("b"))>>),
     Resource(<<KeyValue("service.name", StringValue("svc"))>>)}

MainBatches == SeqsUpTo(MainResources, MaxItems)

Init ==
    InitWith(MainTenantConfigs, {PlainEndpoint, SecureEndpoint},
             {ValidBody(b) : b \in MainBatches} \cup {InvalidBody}, "start")

Worker(t) == WorkerSend(t) \/ ClientDo(t) \/ WorkerRecord(t) \/ WorkerDone(t)

Next ==
    \/ HandlerUnmarshal
    \/ HandlerNew
    \/ DoPartition
    \/ \E t \in DOMAIN tenantMap : DispatchGo(t)
    \/ \E t \in DOMAIN tenantMap : Worker(t)
    \/ DispatchReturn
    \/ HandlerRespond

Spec == Init /\ [][Next]_vars

(***************************************************************************)
(* Properties of one served request, checked under Spec.                   *)
(***************************************************************************)
\* the pointers an encoded LogsData body carries, in body order
PointersIn(encoded) == [i \in 1..Len(encoded) |-> encoded[i][3]]

\* the bucket keys whose formatted identity is the request's tenant header
HeaderTenants(req) ==
    {T \in DOMAIN tenantMap :
        HeaderGet(req.Header, cfg.Tenant.Header) = Sprintf(cfg.Tenant.Format, T)}

\* C1: every request handed to the executor bears the formatted identity of
\* exactly one bucket key T, its body encodes exactly T's bucket in bucket
\* order, and every item it carries resolved to T.
C1_RequestCarriesOwnBucket ==
    \A req \in BagToSet(sent) :
        /\ Cardinality(HeaderTenants(req)) = 1
        /\ \A T \in HeaderTenants(req) :
              /\ PointersIn(req.Body) = tenantMap[T]
              /\ \A i \in 1..Len(req.Body) :
                    /\ req.Body[i][2] = EncodeResource(heap[tenantMap[T][i]].Resource)
                    /\ ResolvedTenantOf(req.Body[i][3]) = T

\* tenants [a, b, a]: two requests are out, one of them carrying two items
C1_Witness ==
    /\ BagCardinality(sent) >= 2
    /\ \E req \in BagToSet(sent) : Len(req.Body) = 2

\* the requests issued for bucket t
RequestsFor(t) ==
    {req \in BagToSet(sent) :
        HeaderGet(req.Header, cfg.Tenant.Header) = Sprintf(cfg.Tenant.Format, t)}

CallsFor(t) == SumOver(RequestsFor(t), [req \in RequestsFor(t) |-> CopiesIn(req, sent)])

EncodeFailed(t) == sendRet[t].kind = "error" /\ wpc[t] # "start"
                   /\ sendRet[t].err = "failed to marshal data: marshal error"

HasRecorded(t) ==
    /\ span[t].status \in {"Ok", "Error"}
    /\ \E attrs \in DOMAIN proxyRecordsMetric : tenantAttribute(t) \in attrs

\* C4: Dispatch returns, and the 202 is written, only when every worker has
\* finished its send and recorded its outcome; nothing is recorded after
\* Dispatch has returned.
C4_DispatchJoinsWorkers ==
    /\ (dispatchRet # "none" \/ response.status = 202) =>
          \A t \in DOMAIN tenantMap : wpc[t] = "done" /\ HasRecorded(t)
    /\ lateRecords = 0

C4_Witness ==
    /\ response.status = 202
    /\ Cardinality(DOMAIN tenantMap) >= 2

\* C5: Dispatch only ever returns nil, and a handler that decoded the body
\* and ran Dispatch answers 202 with an empty body whatever the workers'
\* outcomes were.
C5_Always202 ==
    /\ dispatchRet \in {"none", "nil"}
    /\ (pc = "done" /\ UnmarshalErr(body) = "" /\ response.status # 500) =>
          response = [status |-> 202, body |-> ""]

\* a 202 after a transport failure, a non-2xx response and an encode failure
C5_Witness ==
    /\ pc = "done"
    /\ response.status = 202
    /\ \E t1, t2, t3 \in DOMAIN tenantMap :
          /\ sendRet[t1] = SendError("failed to send request: transport error")
          /\ sendRet[t2] = SendResponse(503)
          /\ sendRet[t3] = SendError("failed to marshal data: marshal error")

\* the counter entries tagged with tenant t
EntriesOf(counter, t) ==
    {<<attrs, counter[attrs]>> : attrs \in {a \in DOMAIN counter : tenantAttribute(t) \in a}}

\* what worker t has on record once it recorded, given only its own bucket
\* and what its own send returned
OwnRecord(t) ==
    LET n == Len(tenantMap[t])
        ret == sendRet[t]
    IN  IF ret.kind = "error"
        THEN [span |-> SpanStatus("Error", "failed to send"),
              records |-> {<<{signalTypeAttr, tenantAttribute(t)}, n>>},
              requests |-> {}]
        ELSE [span |-> SpanStatus("Ok", "sent successfully"),
              records |-> {<<{signalTypeAttr, tenantAttribute(t),
                              respAttr(ret.StatusCode)}, n>>},
              requests |-> {<<{signalTypeAttr, tenantAttribute(t),
                               respAttr(ret.StatusCode)}, 1>>}]

\* the request of bucket t, given only the configuration and the bucket
OwnRequest(t) ==
    [Context |-> "r.Context", Method |-> "POST", URL |-> cfg.Logs.Address,
     Header |-> AddHeaders(t, <<>>, cfg, cfg.Logs.Headers),
     Body   |-> marshalResources(heap, tenantMap[t])]

C6_OwnOutcomeOnly ==
    \A t \in DOMAIN tenantMap :
        /\ (wpc[t] \in {"inflight", "returned", "recorded", "done"}
              /\ ~EncodeFailed(t)) =>
              (RequestsFor(t) = {OwnRequest(t)} /\ CallsFor(t) = 1)
        /\ wpc[t] \in {"recorded", "done"} =>
              /\ span[t] = OwnRecord(t).span
              /\ EntriesOf(proxyRecordsMetric, t) = OwnRecord(t).records
              /\ EntriesOf(proxyRequestsMetric, t) = OwnRecord(t).requests

C6_PeersUntouched ==
    \A t \in DOMAIN wpc :
        wpc'[t] # wpc[t] =>
            \A u \in DOMAIN wpc \ {t} :
                /\ wpc'[u] = wpc[u]
                /\ sendRet'[u] = sendRet[u]
                /\ span'[u] = span[u]
                /\ RequestsFor(u)' = RequestsFor(u)
                /\ EntriesOf(proxyRecordsMetric, u)' = EntriesOf(proxyRecordsMetric, u)
                /\ EntriesOf(proxyRequestsMetric, u)' = EntriesOf(proxyRequestsMetric, u)

\* C6: the request issued for a tenant and the outcome that tenant records
\* are determined by its own bucket and by what its own executor call
\* returned, so they are the same whether a peer's call fails or succeeds;
\* and no step of one worker changes the position, the send result, the
\* span, the request or the counters of a peer.
C6_Isolation == []C6_OwnOutcomeOnly /\ [][C6_PeersUntouched]_vars

\* tenant t failed in transport while its peer u got a 200 for its request
\* and recorded it
C6_Witness ==
    \E t, u \in DOMAIN tenantMap :
        /\ t # u
        /\ wpc[t] = "done"
        /\ sendRet[t] = SendError("failed to send request: transport error")
        /\ wpc[u] = "done"
        /\ sendRet[u] = SendResponse(200)
        /\ RequestsFor(u) = {OwnRequest(u)}
        /\ span[u].status = "Ok"

\* C7: when the body cannot be decoded the handler answers 400 with the
\* body "failed to unmarshal logs" and neither partitions nor sends.
C7_DecodeFailure400 ==
    (pc = "done" /\ UnmarshalErr(body) # "") =>
        /\ response = HttpError("failed to unmarshal logs", 400)
        /\ tenantMap = EmptyMap
        /\ warns = <<>>
        /\ sent = EmptyBag

(***************************************************************************)
(* The default tenant and the dropped items.                               *)
(***************************************************************************)
\* Partition has returned to the handler
PartitionReturned ==
    pc \in {"partitioned", "returned"} \/ (pc = "done" /\ dispatchRet # "none")

\* neither the primary key nor a fallback key gave item p a tenant
Unresolved(p) == ResolveTenant(cfg, GetAttributes(Received(p))) = ""

UnresolvedItems == {p \in Range(resources) : Unresolved(p)}

BackfillAttribute == KeyValue(cfg.Tenant.Label, StringValue(cfg.Tenant.Default))

\* C12: once Partition has returned with a default tenant configured, the
\* resource of every item no key resolved is the received resource with
\* one more attribute at its end, (primary key, default identity), whose
\* value is the configured default and not its formatted header value, and
\* the item is in the bucket keyed by the default tenant.
C12_DefaultBackfill ==
    (PartitionReturned /\ cfg.Tenant.Default # "") =>
        \A p \in UnresolvedItems :
            /\ heap[p].Resource.present
            /\ heap[p].Resource.Attributes
                  = Append(GetAttributes(Received(p)), BackfillAttribute)
            /\ InBucket(p, cfg.Tenant.Default)

\* under the format "%s-prod" the default bucket went out with the header
\* "default-prod" while the back-filled attribute in its body is "default"
C12_Witness ==
    /\ cfg.Tenant.Format = <<"%s", "-prod">>
    /\ cfg.Tenant.Default = "default"
    /\ UnresolvedItems # {}
    /\ \E req \in BagToSet(sent) :
          /\ HeaderGet(req.Header, cfg.Tenant.Header) = "default-prod"
          /\ \E i \in 1..Len(req.Body) :
                \E j \in 1..Len(req.Body[i][2][2]) :
                    req.Body[i][2][2][j] = KeyValue("tenant.id", StringValue("default"))

\* the position of item p in the input list
InputIndex(p) == CHOOSE i \in 1..Len(resources) : resources[i] = p

\* C13: in every bucket Partition returns, an item that precedes another
\* in the bucket also precedes it in the input list.
C13_BucketsKeepInputOrder ==
    pc = "partitioned" =>
        \A t \in DOMAIN tenantMap :
            \A i, j \in 1..Len(tenantMap[t]) :
                i < j => InputIndex(tenantMap[t][i]) < InputIndex(tenantMap[t][j])

\* tenants interleaved as [a, b, a]: the bucket of a holds the first and
\* the third item
C13_Witness ==
    /\ pc = "partitioned"
    /\ Len(resources) = 3
    /\ \E t, u \in DOMAIN tenantMap :
          /\ t # u
          /\ tenantMap[t] = <<resources[1], resources[3]>>
          /\ tenantMap[u] = <<resources[2]>>

(***************************************************************************)
(* The header composer under every shape of the endpoint's extra-headers   *)
(* string: the same handler, serving one-item batches.                     *)
(***************************************************************************)
\* pieces of an extra-headers string: "X-Env=p", "X-Scope-OrgID=evil",
\* "content-type=t", "A=b=c", "no" and the empty piece
HeaderPieces ==
    {<<"X", "-", "E", "n", "v", "=", "p">>,
     <<"X", "-", "S", "c", "o", "p", "e", "-", "O", "r", "g", "I", "D", "=",
       "e", "v", "i", "l">>,
     <<"c", "o", "n", "t", "e", "n", "t", "-", "t", "y", "p", "e", "=", "t">>,
     <<"A", "=", "b", "=", "c">>,
     <<"n", "o">>,
     <<>>}

\* strings of one piece or of two pieces joined by a comma
HeaderStrings ==
    HeaderPieces \cup {x \o <<",">> \o y : x \in HeaderPieces, y \in HeaderPieces}

HeaderEndpoints ==
    {[Address |-> "http://logs", Headers |-> hs,
      TLS |-> [CertFile |-> "", KeyFile |-> "", CAFile |-> ""]] :
        hs \in HeaderStrings}

\* one item with the tenant "a", one with "b", one that takes the default
HeaderBatches ==
    {<<Resource(<<KeyValue("tenant.id", StringValue("a"))>>)>>,
     <<Resource(<<KeyValue("tenantId", StringValue("b"))>>)>>,
     <<Resource(<<KeyValue("service.name", StringValue("svc"))>>)>>}

InitHeaders ==
    InitWith(MainTenantConfigs, HeaderEndpoints,
             {ValidBody(b) : b \in HeaderBatches}, "start")

SpecHeaders == InitHeaders /\ [][Next]_vars

\* the bucket keys whose bucket is the one the request's body encodes
BodyTenants(req) == {T \in DOMAIN tenantMap : PointersIn(req.Body) = tenantMap[T]}

\* all the values the request carries under header key k
HeaderValues(req, k) ==
    IF CanonicalHeaderKey(k) \in DOMAIN req.Header
    THEN req.Header[CanonicalHeaderKey(k)] ELSE <<>>

\* C14: every request handed to the executor carries the single
\* Content-Type value application/x-protobuf and exactly one value under
\* the tenant header, the configured format applied to the identity of the
\* bucket it carries, whatever the endpoint's extra-headers string is.
C14_OneTenantHeader ==
    \A req \in BagToSet(sent) :
        /\ HeaderValues(req, "Content-Type") = <<"application/x-protobuf">>
        /\ \A T \in BodyTenants(req) :
              HeaderValues(req, cfg.Tenant.Header)
                  = <<Sprintf(cfg.Tenant.Format, T)>>

(***************************************************************************)
(* Per-worker accounting.                                                  *)
(***************************************************************************)
\* worker t runs the code that follows the return of send
RecordStep(t) == wpc[t] = "returned" /\ wpc'[t] = "recorded"

\* the counter changed by n at the attribute set tags and nowhere else
AddedAt(counter, counterNext, tags, n) ==
    /\ CounterValue(counterNext, tags) = CounterValue(counter, tags) + n
    /\ \A a \in (DOMAIN counter \cup DOMAIN counterNext) \ {tags} :
          CounterValue(counterNext, a) = CounterValue(counter, a)

StatusTags(t, code) ==
    {<<"signal.type", "logs">>, <<"signal.tenant", t>>,
     <<"signal.response.status.code", ToString(code)>>}

FailureTags(t) == {<<"signal.type", signalType>>, <<"signal.tenant", t>>}

C15_SendReturnsStatus ==
    \A t \in DOMAIN sendRet :
        sendRet[t].kind = "response" =>
            /\ sendRet[t].err = ""
            /\ sendRet[t].StatusCode \in StatusCodes
            /\ CounterValue(proxyLatencyMetric,
                            StatusTags(t, sendRet[t].StatusCode)) = 1

C15_CountsResponse ==
    \A t \in DOMAIN wpc :
        (RecordStep(t) /\ sendRet[t].kind = "response") =>
            /\ AddedAt(proxyRecordsMetric, proxyRecordsMetric',
                       StatusTags(t, sendRet[t].StatusCode), Len(tenantMap[t]))
            /\ AddedAt(proxyRequestsMetric, proxyRequestsMetric',
                       StatusTags(t, sendRet[t].StatusCode), 1)

TransportErrors == {"failed to send request: transport error", "transport error"}

TransportFailed(t) ==
    sendRet[t].kind = "error" /\ sendRet[t].err \in TransportErrors

\* the span a worker reports to: its own, or the one span of dispatch
WorkerSpan(t) == IF t \in DOMAIN span THEN span[t] ELSE span["dispatch"]

ErrorLogged(msg) == CopiesIn(LogRecord("ERROR", msg), logs)

C16_CountsFailure ==
    \A t \in DOMAIN wpc :
        (RecordStep(t) /\ TransportFailed(t)) =>
            /\ AddedAt(proxyRecordsMetric, proxyRecordsMetric',
                       FailureTags(t), Len(tenantMap[t]))
            /\ proxyRequestsMetric' = proxyRequestsMetric
            /\ ErrorLogged(sendRet[t].err)' = ErrorLogged(sendRet[t].err) + 1
            /\ WorkerSpan(t)'.status = "Error"

C16_FailureOnRecord ==
    \A t \in DOMAIN wpc :
        (TransportFailed(t) /\ wpc[t] \in {"recorded", "done"}) =>
            /\ \A a \in DOMAIN proxyRecordsMetric :
                  <<"signal.tenant", t>> \in a => a = FailureTags(t)
            /\ \A a \in DOMAIN proxyRequestsMetric : <<"signal.tenant", t>> \notin a
            /\ ErrorLogged(sendRet[t].err) >= 1
            /\ WorkerSpan(t).status = "Error"

\* C16: when the executor call fails, the worker adds the bucket's item
\* count to records_total under the tags signal type and tenant, without
\* a status-code tag, leaves requests_total as it was, logs one error and
\* sets its span to Error, in the processor and in the per-signal packages.
C16_TransportFailureCounted == []C16_FailureOnRecord /\ [][C16_CountsFailure]_vars

\* C17: a worker whose bucket failed to encode has nothing on record in
\* records_total or requests_total for its tenant; it logged an error and
\* its span is Error.
C17_EncodeFailureNotCounted ==
    \A t \in DOMAIN wpc :
        (EncodeFailed(t) /\ wpc[t] \in {"recorded", "done"}) =>
            /\ EntriesOf(proxyRecordsMetric, t) = {}
            /\ EntriesOf(proxyRequestsMetric, t) = {}
            /\ ErrorLogged(sendRet[t].err) >= 1
            /\ span[t].status = "Error"


(***************************************************************************)
(* The per-signal packages internal/logs, internal/metrics and             *)
(* internal/traces: the Handler of each, its partition, dispatch and send. *)
(* Each is constructed once at start-up around its own executor.           *)
(***************************************************************************)

\* unmarshal: protojson first for application/json and for an absent content
\* type, binary protobuf after it; binary alone for every other content type.
\* The error returned is the one of the first decoder tried.
unmarshal(b) ==
    IF b.ContentType \in {"application/json", ""}
    THEN IF b.valid THEN ""
         ELSE "proto: syntax error (line 1:1): invalid value"
    ELSE IF b.valid /\ b.encoding = "binary" THEN ""
         ELSE "proto: cannot parse invalid wire-format data"

\* Handler up to the decoded batch: a body that does not decode is answered
\* with 400 and a fixed message
Handler ==
    /\ pc = "start"
    /\ LET err == unmarshal(body)
       IN  IF err # ""
           THEN /\ logs' = Emit(logs, "ERROR", err)
                /\ response' = HttpError("failed to unmarshal " \o signalType, 400)
                /\ pc' = "done"
                /\ UNCHANGED <<heap, resources>>
           ELSE /\ heap' = HeapOf(body.batch)
                /\ resources' = PointersOf(body.batch)
                /\ pc' = "constructed"
                /\ UNCHANGED <<logs, response>>
    /\ UNCHANGED <<server, ctxDone, proxyResponseCodeMetric, cfg, body,
                   tenantMap, warns, toSpawn, waitGroup, wpc, sendRet, sent,
                   proxyRecordsMetric, proxyRequestsMetric, proxyLatencyMetric,
                   span, lateRecords, dispatchRet, transport>>

\* the warning of partition for an item without tenant and without default
warnRecord ==
    CASE signalType = "logs" ->
           [level |-> "WARN",
            msg |-> "No tenant found in attributes and no default tenant configured",
            attrs |-> {signalTypeLogAttr}]
      [] signalType = "traces" ->
           [level |-> "WARN",
            msg |-> "no tenant found in span attributes and no default tenant configured",
            attrs |-> {signalTypeLogAttr}]
      [] signalType = "metrics" ->
           [level |-> "WARN",
            msg |-> "no tenant found in attributes and no default tenant configured",
            attrs |-> {}]

\* partition reads item.Resource.Attributes without a nil guard: in the trace
\* line of traces, in the lookup of the label, in the lookup of the labels
\* and in the default branch
dereferences(c) ==
    \/ signalType = "traces"
    \/ c.Tenant.Label # ""
    \/ Len(c.Tenant.Labels) > 0
    \/ c.Tenant.Default # ""

\* one iteration of the loop of partition
partitionItem(c, st, p) ==
    LET resource == getResource(st.heap, p)
        tenant   == ResolveTenant(c, GetAttributes(resource))
    IN  IF st.panicked THEN st
        ELSE IF ~resource.present /\ dereferences(c)
        THEN [st EXCEPT !.panicked = TRUE]
        ELSE IF tenant = ""
        THEN IF c.Tenant.Default = ""
             THEN [st EXCEPT !.warns = Append(@, warnRecord)]   \* continue
             ELSE [st EXCEPT
                     !.heap[p].Resource.Attributes =
                         Append(@, KeyValue(c.Tenant.Label,
                                            StringValue(c.Tenant.Default))),
                     !.tenantMap = MapAppend(@, c.Tenant.Default, p)]
        ELSE [st EXCEPT !.tenantMap = MapAppend(@, tenant, p)]

RECURSIVE partitionLoop(_, _, _, _)
partitionLoop(c, st, rs, i) ==
    IF i > Len(rs) THEN st
    ELSE partitionLoop(c, partitionItem(c, st, rs[i]), rs, i + 1)

partition(c, h, rs) ==
    partitionLoop(c, [tenantMap |-> EmptyMap, heap |-> h, warns |-> <<>>,
                      panicked |-> FALSE], rs, 1)

\* Handler calls partition and enters dispatch, which starts the one span
\* "dispatch" that every worker of the request writes to
HandlerPartition ==
    /\ pc = "constructed"
    /\ LET st == partition(cfg, heap, resources)
       IN  IF st.panicked
           THEN /\ pc' = "panicked"
                /\ heap' = st.heap
                /\ warns' = st.warns
                /\ UNCHANGED <<tenantMap, toSpawn, wpc, sendRet, span>>
           ELSE /\ pc' = "partitioned"
                /\ heap' = st.heap
                /\ tenantMap' = st.tenantMap
                /\ warns' = st.warns
                /\ toSpawn' = DOMAIN st.tenantMap
                /\ wpc' = [t \in DOMAIN st.tenantMap |-> "none"]
                /\ sendRet' = [t \in DOMAIN st.tenantMap |-> NoReturn]
                /\ span' = [k \in {"dispatch"} |-> SpanStarted]
    /\ UNCHANGED <<server, ctxDone, proxyResponseCodeMetric, cfg, body,
                   resources, waitGroup, sent, proxyRecordsMetric,
                   proxyRequestsMetric, proxyLatencyMetric, logs, lateRecords,
                   dispatchRet, transport, response>>

\* dispatch: wg.Add(1) and go func(tenant, data) for the next tenant
dispatchGo(t) ==
    /\ pc = "partitioned"
    /\ t \in toSpawn
    /\ toSpawn' = toSpawn \ {t}
    /\ waitGroup' = waitGroup + 1
    /\ wpc' = [wpc EXCEPT ![t] = "started"]
    /\ UNCHANGED <<server, ctxDone, proxyResponseCodeMetric, cfg, body, heap,
                   resources, pc, tenantMap, warns, sendRet, sent,
                   proxyRecordsMetric, proxyRequestsMetric, proxyLatencyMetric,
                   logs, span, lateRecords, dispatchRet, transport, response>>

\* the context a request is built with: Logs.send uses
\* http.NewRequestWithContext(ctx, ...), Metrics.send and Traces.send use
\* http.NewRequest, whose context is context.Background()
requestContext ==
    IF signalType = "logs" THEN "r.Context" ELSE "context.Background"

\* addHeaders of metrics and traces, and httputil.AddHeaders as Logs.send
\* calls it: the tenant header, then the pairs of config.Logs.Headers
addHeaders(tenant, c) == AddHeaders(tenant, <<>>, c, c.Logs.Headers)

\* the request send builds for one tenant
newRequest(c, h, tenant, rs) ==
    [Context |-> requestContext,
     Method  |-> "POST",
     URL     |-> endpoint(c).Address,
     Header  |-> addHeaders(tenant, c),
     Body    |-> marshalResources(h, rs)]

\* send up to client.Do: marshal fails and send returns the error as it is,
\* or the request is handed to the executor
send(t) ==
    /\ t \in DOMAIN wpc
    /\ wpc[t] = "started"
    /\ \/ /\ sendRet' = [sendRet EXCEPT ![t] = SendError("marshal error")]
          /\ wpc' = [wpc EXCEPT ![t] = "returned"]
          /\ UNCHANGED sent
       \/ /\ sent' = sent (+) SetToBag({newRequest(cfg, heap, t, tenantMap[t])})
          /\ wpc' = [wpc EXCEPT ![t] = "inflight"]
          /\ UNCHANGED sendRet
    /\ UNCHANGED <<server, ctxDone, proxyResponseCodeMetric, cfg, body, heap,
                   resources, pc, tenantMap, warns, toSpawn, waitGroup,
                   proxyRecordsMetric, proxyRequestsMetric, proxyLatencyMetric,
                   logs, span, lateRecords, dispatchRet, transport, response>>

\* the tags of the latency sample: size and status of the response, and the
\* signal type in logs and traces; never the tenant
latencyAttributes(code) ==
    {<<"signal.response.size", "0">>, <<"signal.response.status", ToString(code)>>}
        \cup (IF signalType = "metrics" THEN {} ELSE {signalTypeAttr})

\* client.Do returns to send: a transport failure (the only outcome once the
\* request's context is done), or a response of any status
clientDo(t) ==
    /\ t \in DOMAIN wpc
    /\ wpc[t] = "inflight"
    /\ \/ /\ sendRet' = [sendRet EXCEPT ![t] = SendError("transport error")]
          /\ UNCHANGED proxyLatencyMetric
       \/ \E code \in StatusCodes :
             /\ ~ContextDone(requestContext)
             /\ proxyLatencyMetric' =
                    CounterAdd(proxyLatencyMetric, latencyAttributes(code), 1)
             /\ sendRet' = [sendRet EXCEPT ![t] = SendResponse(code)]
    /\ wpc' = [wpc EXCEPT ![t] = "returned"]
    /\ UNCHANGED <<server, ctxDone, proxyResponseCodeMetric, cfg, body, heap,
                   resources, pc, tenantMap, warns, toSpawn, waitGroup, sent,
                   proxyRecordsMetric, proxyRequestsMetric, logs, span,
                   lateRecords, dispatchRet, transport, response>>

\* span.SetStatus on a span that workers share: a status of lower rank than
\* the one the span has is ignored (Unset < Error < Ok), so Ok is final
SetStatus(s, code, description) ==
    IF s.status = "Ok" /\ code # "Ok" THEN s
    ELSE SpanStatus(code, description)

\* signalAttributes of a worker, with the status appended in either branch
signalAttributes(t, status) ==
    {signalTypeAttr, tenantAttribute(t), <<"signal.status", status>>}

\* the worker of dispatch after send has returned
dispatchRecord(t) ==
    /\ t \in DOMAIN wpc
    /\ wpc[t] = "returned"
    /\ LET n == Len(tenantMap[t])
           ret == sendRet[t]
           of == IF signalType = "metrics" THEN " metrics" ELSE ""
           unit == IF signalType = "metrics" THEN "metrics" ELSE "records"
           ok == IF signalType = "metrics" THEN "metrics sent successfully"
                 ELSE "sent successfully"
       IN  IF ret.kind = "error"
           THEN /\ proxyRequestsMetric' =
                       CounterAdd(proxyRequestsMetric,
                                  signalAttributes(t, "failed"), 1)
                /\ proxyRecordsMetric' =
                       CounterAdd(proxyRecordsMetric,
                                  signalAttributes(t, "failed"), n)
                /\ UNCHANGED proxyResponseCodeMetric
                /\ logs' = Emit(logs, "ERROR", ret.err)
                /\ span' = [span EXCEPT
                              !["dispatch"] = SetStatus(@, "Error", "failed to send" \o of)]
           ELSE /\ proxyResponseCodeMetric' =
                       CounterAdd(proxyResponseCodeMetric,
                                  signalAttributes(t, "success")
                                      \cup {<<"signal.response", ToString(ret.StatusCode)>>},
                                  1)
                /\ proxyRequestsMetric' =
                       CounterAdd(proxyRequestsMetric,
                                  signalAttributes(t, "success"), 1)
                /\ proxyRecordsMetric' =
                       CounterAdd(proxyRecordsMetric,
                                  signalAttributes(t, "success"), n)
                /\ logs' = Emit(Emit(logs, "DEBUG",
                                     "sent " \o ToString(n) \o " " \o unit \o " status "
                                     \o ToString(ret.StatusCode) \o " for tenant " \o t),
                                "TRACE", ToString(tenantMap[t]))
                /\ span' = [span EXCEPT !["dispatch"] = SetStatus(@, "Ok", ok)]
    /\ lateRecords' = IF dispatchRet # "none" THEN lateRecords + 1 ELSE lateRecords
    /\ wpc' = [wpc EXCEPT ![t] = "recorded"]
    /\ UNCHANGED <<server, ctxDone, cfg, body, heap, resources, pc, tenantMap,
                   warns, toSpawn, waitGroup, sendRet, sent, proxyLatencyMetric,
                   dispatchRet, transport, response>>

\* OLP_LOGS_HEADERS carries one pair, which the three packages all read
PackagesEndpoint ==
    [Address |-> "http://logs",
     Headers |-> <<"X", "-", "E", "n", "v", "=", "p">>,
     TLS |-> [CertFile |-> "", KeyFile |-> "", CAFile |-> ""]]

\* the three routes POST /v1/logs, /v1/metrics and /v1/traces
Paths == {"/v1/logs", "/v1/metrics", "/v1/traces"}

PackagesBatches == SeqsUpTo(MainResources, MaxItems - 1)

PackagesBodies ==
    {Request(path, b) : path \in Paths, b \in PackagesBatches}
        \cup {BadRequest(path) : path \in Paths}

InitPackages ==
    InitWith(MainTenantConfigs, {PackagesEndpoint}, PackagesBodies, "start")

worker(t) == send(t) \/ clientDo(t) \/ dispatchRecord(t) \/ WorkerDone(t)

NextPackages ==
    \/ Handler
    \/ HandlerPartition
    \/ \E t \in DOMAIN tenantMap : dispatchGo(t)
    \/ \E t \in DOMAIN tenantMap : worker(t)
    \/ DispatchReturn
    \/ HandlerRespond
    \/ CancelInbound

SpecPackages == InitPackages /\ [][NextPackages]_vars

(***************************************************************************)
(* Cancellation of the inbound request.                                    *)
(***************************************************************************)
C18_SentWithRequestContext ==
    \A req \in BagToSet(sent) : req.Context = "r.Context"

C18_CancelledSendFails ==
    \A t \in DOMAIN wpc :
        (wpc[t] = "inflight" /\ wpc'[t] = "returned" /\ ctxDone) =>
            TransportFailed(t)'

\* C18: for every signal, each outbound request is built with the context
\* of the inbound request, and an executor call that returns after the
\* inbound request was cancelled returns a transport failure.
C18_CancelReachesEverySend ==
    []C18_SentWithRequestContext /\ [][C18_CancelledSendFails]_vars

(***************************************************************************)
(* The executor shared by the requests of one signal.                      *)
(***************************************************************************)
\* C19: no step of serving a request writes to the injected executor: its
\* transport stays the one it was constructed with.
C19_ExecutorUnchanged == [][transport' = transport]_vars

(***************************************************************************)
(* main: the serve goroutine, the wait for SIGINT or SIGTERM and the       *)
(* shutdown of the listener, around one request that is in flight.         *)
(***************************************************************************)
\* the handler of the request in flight has returned (net/http recovers a
\* panicking handler and closes its connection)
RequestFinished == pc \in {"done", "panicked"}

\* <-ctx.Done(); stop(); server.Shutdown(shutdownCtx) is entered: the
\* listener is closed and ListenAndServe returns http.ErrServerClosed
Signal ==
    /\ ~server.exited
    /\ server.main = "waiting"
    /\ server' = [server EXCEPT !.main = "shutdown", !.serve = "closed"]
    /\ UNCHANGED <<ctxDone, cfg, body, heap, resources, pc, tenantMap, warns,
                   toSpawn, waitGroup, wpc, sendRet, sent, proxyRecordsMetric,
                   proxyRequestsMetric, proxyLatencyMetric,
                   proxyResponseCodeMetric, logs, span, lateRecords,
                   dispatchRet, transport, response>>

\* the serve goroutine: err != nil after ListenAndServe, logger.Error and
\* os.Exit(1)
ServeReturns ==
    /\ ~server.exited
    /\ server.serve = "closed"
    /\ logs' = Emit(logs, "ERROR", "http: Server closed")
    /\ server' = [server EXCEPT !.serve = "exit", !.exited = TRUE]
    /\ UNCHANGED <<ctxDone, cfg, body, heap, resources, pc, tenantMap, warns,
                   toSpawn, waitGroup, wpc, sendRet, sent, proxyRecordsMetric,
                   proxyRequestsMetric, proxyLatencyMetric,
                   proxyResponseCodeMetric, span, lateRecords, dispatchRet,
                   transport, response>>

\* the deadline of shutdownCtx, cfg.TimeoutShutdown after the signal
ShutdownTimeout ==
    /\ ~server.exited
    /\ server.main = "shutdown"
    /\ ~server.timedOut
    /\ server' = [server EXCEPT !.timedOut = TRUE]
    /\ UNCHANGED <<ctxDone, cfg, body, heap, resources, pc, tenantMap, warns,
                   toSpawn, waitGroup, wpc, sendRet, sent, proxyRecordsMetric,
                   proxyRequestsMetric, proxyLatencyMetric,
                   proxyResponseCodeMetric, logs, span, lateRecords,
                   dispatchRet, transport, response>>

\* server.Shutdown returns once no request is in flight or the deadline has
\* passed (logging the error then); main returns and the process ends
ShutdownReturns ==
    /\ ~server.exited
    /\ server.main = "shutdown"
    /\ RequestFinished \/ server.timedOut
    /\ logs' = IF RequestFinished THEN logs
               ELSE Emit(logs, "ERROR", "http close error: context deadline exceeded")
    /\ server' = [server EXCEPT !.main = "returned", !.exited = TRUE]
    /\ UNCHANGED <<ctxDone, cfg, body, heap, resources, pc, tenantMap, warns,
                   toSpawn, waitGroup, wpc, sendRet, sent, proxyRecordsMetric,
                   proxyRequestsMetric, proxyLatencyMetric,
                   proxyResponseCodeMetric, span, lateRecords, dispatchRet,
                   transport, response>>

\* the goroutines of the request run for as long as the process does
Serve == ~server.exited /\ Next

\* one item for each way of resolving a tenant, and a batch of two tenants
ShutdownBatches ==
    HeaderBatches \cup
        {<<Resource(<<KeyValue("tenant.id", StringValue("a"))>>),
           Resource(<<KeyValue("tenantId", StringValue("b"))>>)>>}

InitShutdown ==
    InitWith(MainTenantConfigs, {PlainEndpoint},
             {ValidBody(b) : b \in ShutdownBatches} \cup {InvalidBody}, "start")

NextShutdown ==
    \/ Serve
    \/ Signal
    \/ ServeReturns
    \/ ShutdownTimeout
    \/ ShutdownReturns

SpecShutdown == InitShutdown /\ [][NextShutdown]_vars

\* C20: the process has not exited while the request that was in flight at
\* the signal is still being served and the shutdown timeout has not
\* elapsed.
C20_NoExitBeforeDrain ==
    server.exited => (RequestFinished \/ server.timedOut)

(***************************************************************************)
(* Partition applied to what a previous Partition produced: every bucket   *)
(* is encoded as it is sent and decoded as a receiver decodes it.          *)
(***************************************************************************)
\* proto.Unmarshal of an encoded Resource field: an absent field is nil
DecodeResource(e) == IF e = <<>> THEN NilResource ELSE Resource(e[2])

\* proto.Unmarshal of an encoded body: the items in body order
Decode(encoded) == [i \in 1..Len(encoded) |-> DecodeResource(encoded[i][2])]

\* the batch a receiver decodes from the body of bucket t
Reencoded(t) == Decode(marshalResources(heap, tenantMap[t]))

\* Partition of that batch under the same tenant configuration
SecondPartition(t) ==
    Partition(cfg, HeapOf(Reencoded(t)), PointersOf(Reencoded(t)))

\* C21: partitioning the encoded and decoded items of any bucket again
\* gives one bucket with the same tenant key holding all of them in order,
\* drops none and does not fail; back-filled items stay with the default.
C21_RepartitionKeepsBuckets ==
    pc = "partitioned" =>
        \A t \in DOMAIN tenantMap :
            LET st == SecondPartition(t)
            IN  /\ ~st.panicked
                /\ st.warns = <<>>
                /\ DOMAIN st.tenantMap = {t}
                /\ st.tenantMap[t] = PointersOf(Reencoded(t))

\* an item whose primary key had an empty value was back-filled, and is
\* in the default bucket after the second Partition as well
C21_Witness ==
    /\ pc = "partitioned"
    /\ cfg.Tenant.Default = "default"
    /\ cfg.Tenant.Label = "tenant.id"
    /\ "default" \in DOMAIN tenantMap
    /\ \E i \in 1..Len(tenantMap["default"]) :
          LET p == tenantMap["default"][i]
          IN  /\ Received(p).present
              /\ Len(Received(p).Attributes) = 1
              /\ Received(p).Attributes[1].Key = "tenant.id"
              /\ Len(Reencoded("default")[i].Attributes) = 2
              /\ SecondPartition("default").tenantMap["default"][i] = i

(***************************************************************************)
(* The first logs package (the Logs type kept beside the tests of          *)
(* internal/httputil): its partition looks at the dedicated label only    *)
(* and declares the variable tenant before the loop over the items.        *)
(***************************************************************************)
\* one iteration of the loop of that partition; st.tenant is the value the
\* variable tenant has when the iteration starts
logsPartitionItem(c, st, p) ==
    LET resource == getResource(st.heap, p)
        i        == FirstIndex(resource.Attributes,
                               LAMBDA a : a.Key = c.Tenant.Label)
        tenant   == IF i = 0 THEN st.tenant
                    ELSE GetStringValue(resource.Attributes[i].Value)
    IN  IF st.panicked THEN st
        ELSE IF ~resource.present
        THEN [st EXCEPT !.panicked = TRUE]   \* Resource.Attributes on nil
        ELSE IF tenant = ""
        THEN IF c.Tenant.Default = ""
             THEN [st EXCEPT
                     !.tenant = "",
                     !.warns = Append(@,
                         [level |-> "WARN",
                          msg |-> "No tenant found in attributes and no default tenant configured",
                          attrs |-> {}])]   \* continue
             ELSE [st EXCEPT
                     !.tenant = c.Tenant.Default,
                     !.heap[p].Resource.Attributes =
                         Append(@, KeyValue(c.Tenant.Label,
                                            StringValue(c.Tenant.Default))),
                     !.tenantMap = MapAppend(@, c.Tenant.Default, p)]
        ELSE [st EXCEPT !.tenant = tenant,
                        !.tenantMap = MapAppend(@, tenant, p)]

RECURSIVE logsPartitionLoop(_, _, _, _)
logsPartitionLoop(c, st, rs, i) ==
    IF i > Len(rs) THEN st
    ELSE logsPartitionLoop(c, logsPartitionItem(c, st, rs[i]), rs, i + 1)

\* var tenant string; for _, resourceLog := range req.ResourceLogs { ... }
logsPartition(c, h, rs) ==
    logsPartitionLoop(c, [tenantMap |-> EmptyMap, heap |-> h, warns |-> <<>>,
                          panicked |-> FALSE, tenant |-> ""], rs, 1)

\* Handler calls partition and enters dispatch
LogsHandlerPartition ==
    /\ pc = "constructed"
    /\ LET st == logsPartition(cfg, heap, resources)
       IN  IF st.panicked
           THEN /\ pc' = "panicked"
                /\ heap' = st.heap
                /\ warns' = st.warns
                /\ UNCHANGED <<tenantMap, toSpawn, wpc, sendRet, span>>
           ELSE /\ pc' = "partitioned"
                /\ heap' = st.heap
                /\ tenantMap' = st.tenantMap
                /\ warns' = st.warns
                /\ toSpawn' = DOMAIN st.tenantMap
                /\ wpc' = [t \in DOMAIN st.tenantMap |-> "none"]
                /\ sendRet' = [t \in DOMAIN st.tenantMap |-> NoReturn]
                /\ span' = [k \in {"dispatch"} |-> SpanStarted]
    /\ UNCHANGED <<server, ctxDone, proxyResponseCodeMetric, cfg, body,
                   resources, waitGroup, sent, proxyRecordsMetric,
                   proxyRequestsMetric, proxyLatencyMetric, logs, lateRecords,
                   dispatchRet, transport, response>>

InitLogsPartition ==
    InitWith(MainTenantConfigs, {PlainEndpoint},
             {ValidBody(b) : b \in SimpleBatches}, "constructed")

NextLogsPartition == LogsHandlerPartition

SpecLogsPartition == InitLogsPartition /\ [][NextLogsPartition]_vars

\* C22: two items of a batch that arrived with the same resource get the
\* same tenant: both are in the bucket of one key, or both are dropped,
\* whichever items come before them.
C22_SameResourceSameTenant ==
    pc = "partitioned" =>
        \A p, q \in Range(resources) :
            Received(p) = Received(q) => BucketsHolding(p) = BucketsHolding(q)

(***************************************************************************)
(* The decoder under every declared content type: the handler of the logs  *)
(* signal serving bodies in either wire format.                            *)
(***************************************************************************)
\* Content-Type absent, application/x-protobuf and application/json
ContentTypes == {"", "application/x-protobuf", "application/json"}

ContentTypeBodies ==
    {RequestAs("/v1/logs", ct, enc, b) :
        ct \in ContentTypes, enc \in {"binary", "json"}, b \in HeaderBatches}

InitContentTypes ==
    InitWith(MainTenantConfigs, {PlainEndpoint}, ContentTypeBodies, "start")

SpecContentTypes == InitContentTypes /\ [][Next]_vars

\* C23: a request whose body is valid OTLP binary is answered with 202,
\* whichever of the three content types it declares.
C23_BinaryAcceptedAnyContentType ==
    (pc = "done" /\ body.valid /\ body.encoding = "binary"
        /\ body.ContentType \in ContentTypes) => response.status = 202

(***************************************************************************)
(* What Partition writes to the items.                                     *)
(***************************************************************************)
\* the resource of item p now extends the resource it arrived with by at
\* most one attribute at the end
ExtendsReceived(p) ==
    LET now  == heap[p].Resource
        then == Received(p)
    IN  /\ now.present = then.present
        /\ Len(now.Attributes) \in {Len(then.Attributes), Len(then.Attributes) + 1}
        /\ SubSeq(now.Attributes, 1, Len(then.Attributes)) = then.Attributes

\* C24: at every moment the attributes an item arrived with are all there,
\* in their order and with their values, followed by at most one appended
\* attribute; an item a key resolved, and an item that is dropped, has its
\* resource exactly as received.
C24_PartitionOnlyAppends ==
    \A p \in DOMAIN heap :
        /\ ExtendsReceived(p)
        /\ (~Unresolved(p) \/ cfg.Tenant.Default = "") =>
              heap[p].Resource = Received(p)

\* an item that arrived with two attributes was back-filled with a third
C24_Witness ==
    /\ pc = "partitioned"
    /\ \E p \in DOMAIN heap :
          /\ Len(Received(p).Attributes) = 2
          /\ Unresolved(p)
          /\ Len(heap[p].Resource.Attributes) = 3
          /\ heap[p].Resource.Attributes[3] = BackfillAttribute

\* C25: Partition never fails on a decoded batch, and once it has returned
\* with a default tenant configured every item without a Resource, or with
\* a Resource without attributes, is in the default bucket.
C25_PartitionCompletes ==
    /\ pc # "panicked"
    /\ (PartitionReturned /\ cfg.Tenant.Default # "") =>
          \A p \in Range(resources) :
              GetAttributes(Received(p)) = <<>> => InBucket(p, cfg.Tenant.Default)

(***************************************************************************)
(* The shape of the map Partition returns.                                 *)
(***************************************************************************)
\* C26: every key of the map Partition returned is a non-empty string and
\* every bucket holds at least one item; the map is empty exactly when
\* every input item was dropped, which includes the empty input.
C26_BucketsKeyedAndNonEmpty ==
    pc = "partitioned" =>
        /\ \A t \in DOMAIN tenantMap : t # "" /\ Len(tenantMap[t]) >= 1
        /\ (tenantMap = EmptyMap) <=> (Dropped = Range(resources))

\* two items, both without a tenant and without a default: an empty map
C26_Witness ==
    /\ pc = "partitioned"
    /\ Len(resources) = 2
    /\ Dropped = Range(resources)
    /\ tenantMap = EmptyMap
    /\ Len(warns) = 2

C28_SpanFollowsOwnOutcome ==
    \A t \in DOMAIN wpc :
        wpc[t] \in {"recorded", "done"} =>
            /\ sendRet[t].kind = "error" => WorkerSpan(t).status = "Error"
            /\ sendRet[t].kind = "response" => WorkerSpan(t).status = "Ok"

(***************************************************************************)
(* Termination of Dispatch.  The goroutines are scheduled fairly, and an   *)
(* executor call that is in flight returns: the client timeout bounds it.  *)
(***************************************************************************)
DispatchBatches == SeqsUpTo(MainResources, MaxItems - 1)

InitDispatch ==
    InitWith(MainTenantConfigs, {PlainEndpoint},
             {ValidBody(b) : b \in DispatchBatches}, "constructed")

NextDispatch ==
    \/ DoPartition
    \/ \E t \in DOMAIN tenantMap : DispatchGo(t)
    \/ \E t \in DOMAIN tenantMap : Worker(t)
    \/ DispatchReturn

FairDispatch ==
    /\ WF_vars(\E t \in DOMAIN tenantMap : DispatchGo(t))
    /\ WF_vars(\E t \in DOMAIN tenantMap : Worker(t))
    /\ WF_vars(DispatchReturn)

SpecDispatch == InitDispatch /\ [][NextDispatch]_vars /\ FairDispatch

\* the workers that were started and have not signalled completion
Running == {t \in DOMAIN wpc : wpc[t] \notin {"none", "done"}}

\* the wait group counts exactly the running workers, so each worker
\* signals once whichever way its send ended; with an empty map Dispatch
\* can return straight away and nothing is handed to the executor
C29_DoneOncePerWorker ==
    /\ waitGroup = Cardinality(Running)
    /\ (pc = "partitioned" /\ tenantMap = EmptyMap) =>
          /\ toSpawn = {} /\ WaitReturns(waitGroup)   \* nothing to wait for
          /\ sent = EmptyBag

\* C29: every worker signals completion exactly once on every path, an
\* empty map makes Dispatch return at once with no executor call, and
\* Dispatch, once entered, eventually returns.
C29_DispatchTerminates ==
    /\ []C29_DoneOncePerWorker
    /\ (pc = "partitioned") ~> (dispatchRet # "none")

\* Dispatch has returned after one bucket failed to encode and the other
\* was answered with 503
C29_Witness ==
    /\ dispatchRet = "nil"
    /\ waitGroup = 0
    /\ \E t, u \in DOMAIN tenantMap :
          /\ EncodeFailed(t)
          /\ sendRet[u] = SendResponse(503)
          /\ wpc[t] = "done" /\ wpc[u] = "done"

Extras(h) ==
    [k \in DOMAIN h \ {"Content-Type", CanonicalHeaderKey(cfg.Tenant.Header)}
        |-> h[k]]

\* the headers the extra-headers string of endpoint e stands for
ConfiguredExtras(e) == Extras(AddCustomHeaders(<<>>, Split(e.Headers, ",")))

\* C31: the extra headers of every request handed to the executor are
\* those configured for the endpoint of the request's own signal.
C31_ExtrasOfOwnSignal ==
    \A req \in BagToSet(sent) :
        Extras(req.Header) = ConfiguredExtras(endpoint(cfg))

(***************************************************************************)
(* The extra-headers string, piece by piece.                               *)
(***************************************************************************)
\* the header each piece of HeaderPieces stands for, read off the piece:
\* key before the first "=", value after it; <<>> for a piece without "="
PieceHeader(piece) ==
    CASE piece = <<"X", "-", "E", "n", "v", "=", "p">> -> <<"X-Env", "p">>
      [] piece = <<"X", "-", "S", "c", "o", "p", "e", "-", "O", "r", "g", "I",
                   "D", "=", "e", "v", "i", "l">> -> <<"X-Scope-OrgID", "evil">>
      [] piece = <<"c", "o", "n", "t", "e", "n", "t", "-", "t", "y", "p", "e",
                   "=", "t">> -> <<"content-type", "t">>
      [] piece = <<"A", "=", "b", "=", "c">> -> <<"A", "b=c">>
      [] OTHER -> <<>>

\* the pieces the configured string is made of
PiecesOf(hs) ==
    CHOOSE ps \in SeqsUpTo(HeaderPieces, 2) \ {<<>>} :
        hs = IF Len(ps) = 1 THEN ps[1] ELSE ps[1] \o <<",">> \o ps[2]

\* header h with the header of one more piece added to it
WithPiece(h, piece) ==
    IF PieceHeader(piece) = <<>> THEN h
    ELSE HeaderAdd(h, PieceHeader(piece)[1], PieceHeader(piece)[2])

\* the headers the request of tenant T is to carry
ExpectedHeader(T) ==
    LET ps   == PiecesOf(cfg.Logs.Headers)
        base == HeaderAdd(HeaderSet(<<>>, "Content-Type", "application/x-protobuf"),
                          cfg.Tenant.Header, Sprintf(cfg.Tenant.Format, T))
        one  == WithPiece(base, ps[1])
    IN  IF Len(ps) = 1 THEN one ELSE WithPiece(one, ps[2])

\* C32: the headers of every request are the content type, the tenant
\* header and, piece by piece in the order of the configured string, one
\* header for each piece that contains "=", its value being all that
\* follows the first "="; a piece without "=" adds nothing, and the
\* request is sent all the same.
C32_ExtrasParsedPieceByPiece ==
    \A req \in BagToSet(sent) :
        \A T \in BodyTenants(req) : req.Header = ExpectedHeader(T)

\* the string "A=b=c,no" gave the header A: b=c and no header for "no"
C32_Witness ==
    /\ cfg.Logs.Headers = <<"A", "=", "b", "=", "c", ",", "n", "o">>
    /\ \E req \in BagToSet(sent) :
          /\ HeaderValues(req, "A") = <<"b=c">>
          /\ "No" \notin DOMAIN req.Header
          /\ Cardinality(DOMAIN req.Header) = 3

(***************************************************************************)
(* Two inbound requests served concurrently by Handlers.Traces with the    *)
(* one tracesProcessor of the handlers.  The decoded items of both live    *)
(* on the one heap; resources, pc, tenantMap, toSpawn and response are     *)
(* held per inbound request, body.batch[r] is the payload of request r.    *)
(***************************************************************************)
Inbound == {1, 2}

Tagged   == Resource(<<KeyValue("tenant.id", StringValue("a"))>>)
Untagged == Resource(<<>>)

ConcurrentBatches ==
    {<<Tagged>>, <<Untagged>>, <<Tagged, Untagged>>, <<Untagged, Tagged>>,
     <<Tagged, Tagged>>}

InitConcurrent ==
    /\ server = Serving
    /\ ctxDone = FALSE
    /\ cfg \in {[Tenant |-> t, Logs |-> PlainEndpoint, Metrics |-> MetricsEndpoint,
                 Traces |-> TracesEndpoint] : t \in MainTenantConfigs}
    /\ body \in {Request("/v1/traces", <<b1, b2>>) :
                    b1 \in ConcurrentBatches, b2 \in ConcurrentBatches}
    /\ heap = <<>>
    /\ resources = [r \in Inbound |-> <<>>]
    /\ pc = [r \in Inbound |-> "start"]
    /\ tenantMap = [r \in Inbound |-> EmptyMap]
    /\ warns = <<>>
    /\ toSpawn = [r \in Inbound |-> {}]
    /\ waitGroup = 0
    /\ wpc = NoWorkers
    /\ sendRet = NoWorkers
    /\ sent = EmptyBag
    /\ proxyRecordsMetric = <<>>
    /\ proxyRequestsMetric = <<>>
    /\ proxyLatencyMetric = <<>>
    /\ proxyResponseCodeMetric = <<>>
    /\ logs = EmptyBag
    /\ span = NoWorkers
    /\ lateRecords = 0
    /\ dispatchRet = "none"
    /\ transport = "default"
    /\ response = [r \in Inbound |-> [status |-> 0, body |-> ""]]

\* proto.Unmarshal(r, &tracepb.TracesData{}): the items of request r are
\* allocated behind whatever the heap holds already
TracesUnmarshal(r) ==
    /\ pc[r] = "start"
    /\ LET err == UnmarshalErr(body)
           n   == Len(body.batch[r])
       IN  IF err # ""
           THEN /\ logs' = Emit(logs, "ERROR", err)
                /\ response' = [response EXCEPT ![r] = HttpError(err, 400)]
                /\ pc' = [pc EXCEPT ![r] = "done"]
                /\ UNCHANGED <<heap, resources>>
           ELSE /\ heap' = heap \o HeapOf(body.batch[r])
                /\ resources' = [resources EXCEPT
                                   ![r] = [i \in 1..n |-> Len(heap) + i]]
                /\ pc' = [pc EXCEPT ![r] = "decoded"]
                /\ UNCHANGED <<logs, response>>
    /\ UNCHANGED <<server, ctxDone, cfg, body, tenantMap, warns, toSpawn,
                   waitGroup, wpc, sendRet, sent, proxyRecordsMetric,
                   proxyRequestsMetric, proxyLatencyMetric,
                   proxyResponseCodeMetric, span, lateRecords, dispatchRet,
                   transport>>

\* a Partition that keeps filling the map of the request partitioned
\* before it: one map held by the processor
TracesPartition_SharedMap(r) ==
    /\ pc[r] = "decoded"
    /\ LET other == CHOOSE o \in Inbound : o # r
           st == PartitionLoop(cfg, [tenantMap |-> tenantMap[other], heap |-> heap,
                                     warns |-> <<>>, panicked |-> FALSE],
                               resources[r], 1)
       IN  /\ pc' = [pc EXCEPT ![r] = "partitioned"]
           /\ heap' = st.heap
           /\ warns' = warns \o st.warns
           /\ tenantMap' = [tenantMap EXCEPT ![r] = st.tenantMap]
           /\ toSpawn' = [toSpawn EXCEPT ![r] = DOMAIN st.tenantMap]
    /\ UNCHANGED <<server, ctxDone, cfg, body, resources, waitGroup, wpc,
                   sendRet, sent, proxyRecordsMetric, proxyRequestsMetric,
                   proxyLatencyMetric, proxyResponseCodeMetric, logs, span,
                   lateRecords, dispatchRet, transport, response>>

\* h.tracesProcessor.Partition(ctx, data.GetResourceSpans()) of request r
TracesPartition(r) ==
    /\ pc[r] = "decoded"
    /\ LET st == Partition(cfg, heap, resources[r])
       IN  IF st.panicked
           THEN /\ pc' = [pc EXCEPT ![r] = "panicked"]
                /\ heap' = st.heap
                /\ warns' = warns \o st.warns
                /\ UNCHANGED <<tenantMap, toSpawn>>
           ELSE /\ pc' = [pc EXCEPT ![r] = "partitioned"]
                /\ heap' = st.heap
                /\ warns' = warns \o st.warns
                /\ tenantMap' = [tenantMap EXCEPT ![r] = st.tenantMap]
                /\ toSpawn' = [toSpawn EXCEPT ![r] = DOMAIN st.tenantMap]
    /\ UNCHANGED <<server, ctxDone, cfg, body, resources, waitGroup, wpc,
                   sendRet, sent, proxyRecordsMetric, proxyRequestsMetric,
                   proxyLatencyMetric, proxyResponseCodeMetric, logs, span,
                   lateRecords, dispatchRet, transport, response>>

\* the request send builds for bucket t of inbound request r, with the
\* context of that inbound request
TracesRequest(r, t) ==
    [NewRequest(cfg, heap, t, tenantMap[r][t]) EXCEPT !.Context = <<"r.Context", r>>]

\* one goroutine of Dispatch for request r, from waitGroup.Add(1) to
\* waitGroup.Done(): send, then the counters, the log and the span status
TracesWorker(r, t) ==
    /\ pc[r] = "partitioned"
    /\ t \in toSpawn[r]
    /\ toSpawn' = [toSpawn EXCEPT ![r] = @ \ {t}]
    /\ LET n == Len(tenantMap[r][t])
           failed(msg) ==
               /\ proxyRecordsMetric' =
                      CounterAdd(proxyRecordsMetric,
                                 {tenantAttribute(t), signalTypeAttr}, n)
               /\ logs' = Emit(logs, "ERROR", msg)
               /\ span' = span @@ (<<r, t>> :> SpanStatus("Error", "failed to send"))
               /\ UNCHANGED <<proxyRequestsMetric, proxyLatencyMetric>>
       IN  \/ /\ failed("failed to marshal data: marshal error")
              /\ UNCHANGED sent
           \/ /\ sent' = sent (+) SetToBag({TracesRequest(r, t)})
              /\ failed("failed to send request: transport error")
           \/ \E code \in StatusCodes :
                 /\ sent' = sent (+) SetToBag({TracesRequest(r, t)})
                 /\ proxyLatencyMetric' =
                        CounterAdd(proxyLatencyMetric,
                                   {respAttr(code), signalTypeAttr, tenantAttribute(t)}, 1)
                 /\ proxyRecordsMetric' =
                        CounterAdd(proxyRecordsMetric,
                                   {signalTypeAttr, tenantAttribute(t), respAttr(code)}, n)
                 /\ proxyRequestsMetric' =
                        CounterAdd(proxyRequestsMetric,
                                   {signalTypeAttr, tenantAttribute(t), respAttr(code)}, 1)
                 /\ logs' = Emit(Emit(logs, "DEBUG",
                                      "sent " \o ToString(n) \o " records status "
                                      \o ToString(code) \o " for tenant " \o t),
                                 "TRACE", ToString(tenantMap[r][t]))
                 /\ span' = span @@ (<<r, t>> :> SpanStatus("Ok", "sent successfully"))
    /\ UNCHANGED <<server, ctxDone, cfg, body, heap, resources, pc, tenantMap,
                   warns, waitGroup, wpc, sendRet, proxyResponseCodeMetric,
                   lateRecords, dispatchRet, transport, response>>

\* Dispatch of request r returned nil: w.WriteHeader(http.StatusAccepted)
TracesRespond(r) ==
    /\ pc[r] = "partitioned"
    /\ toSpawn[r] = {}
    /\ response' = [response EXCEPT ![r] = [status |-> 202, body |-> ""]]
    /\ pc' = [pc EXCEPT ![r] = "done"]
    /\ UNCHANGED <<server, ctxDone, cfg, body, heap, resources, tenantMap,
                   warns, toSpawn, waitGroup, wpc, sendRet, sent,
                   proxyRecordsMetric, proxyRequestsMetric, proxyLatencyMetric,
                   proxyResponseCodeMetric, logs, span, lateRecords,
                   dispatchRet, transport>>

Traces(r) ==
    \/ TracesUnmarshal(r)
    \/ TracesPartition(r)
    \/ \E t \in DOMAIN tenantMap[r] : TracesWorker(r, t)
    \/ TracesRespond(r)

NextConcurrent == \E r \in Inbound : Traces(r)

SpecConcurrent == InitConcurrent /\ [][NextConcurrent]_vars

\* the items inbound request r decoded
ItemsOf(r) == {resources[r][i] : i \in 1..Len(resources[r])}

\* C33: with two inbound requests in service at once, every bucket of a
\* request holds items that request decoded and no others, and every
\* outbound request carries items of the inbound request it was built for.
C33_BucketsOfOwnRequest ==
    /\ \A r \in Inbound : \A t \in DOMAIN tenantMap[r] :
          \A i \in 1..Len(tenantMap[r][t]) : tenantMap[r][t][i] \in ItemsOf(r)
    /\ \A req \in BagToSet(sent) :
          \A i \in 1..Len(req.Body) :
              PointersIn(req.Body)[i] \in ItemsOf(req.Context[2])

\* both requests are between Partition and their response, hold a bucket
\* for one and the same tenant, and each has had a request sent for it
C33_Witness ==
    /\ \A r \in Inbound : pc[r] = "partitioned"
    /\ \E t \in DOMAIN tenantMap[1] \cap DOMAIN tenantMap[2] :
          \A r \in Inbound :
              \E req \in BagToSet(sent) :
                  /\ req.Context = <<"r.Context", r>>
                  /\ PointersIn(req.Body) = tenantMap[r][t]

(***************************************************************************)
(* What the goroutines of Dispatch leave alone, checked under Spec.        *)
(***************************************************************************)
\* Dispatch is running: Partition has returned and Dispatch has not
Dispatching == pc = "partitioned"

\* C34: from the return of Partition to the return of Dispatch no step,
\* of the loop or of any goroutine, changes an item, its resource or a
\* bucket; the back-fill of the default tenant is made by the step of
\* Partition, at which no goroutine has been started.
C34_DispatchWritesNoItem ==
    [][/\ Dispatching => UNCHANGED <<heap, resources, tenantMap>>
       /\ heap' # heap /\ pc # "start" =>
             pc = "constructed" /\ \A t \in DOMAIN wpc' : wpc'[t] = "none"]_vars

\* two goroutines are in flight over buckets one of which holds an item
\* that Partition back-filled
C34_Witness ==
    /\ Dispatching
    /\ heap # HeapOf(body.batch)
    /\ \E t, u \in DOMAIN wpc :
          t # u /\ wpc[t] = "inflight" /\ wpc[u] = "inflight"

(***************************************************************************)
(* processor.New over every combination of the three TLS files.            *)
(***************************************************************************)
TLSEndpoints ==
    {[Address |-> "https://logs", Headers |-> <<>>,
      TLS |-> [CertFile |-> c, KeyFile |-> k, CAFile |-> a]] :
        c \in {"", "cert.pem"}, k \in {"", "key.pem"}, a \in {"", "ca.pem"}}

InitTLS ==
    InitWith(MainTenantConfigs, TLSEndpoints,
             {ValidBody(<<r>>) : r \in MainResources} \cup {InvalidBody}, "start")

SpecTLS == InitTLS /\ [][Next]_vars

\* the files of the endpoint's TLS settings that are left empty
EmptyFiles ==
    {f \in {"CertFile", "KeyFile", "CAFile"} : endpoint(cfg).TLS[f] = ""}

\* C35: the client gets a TLS transport only for an endpoint whose three
\* files are all named, and gets it whenever New returned a processor for
\* such an endpoint; with a file left empty the transport stays the one
\* the client had and New reports no error.
C35_TLSExactlyWithAllThreeFiles ==
    /\ transport = "tls" => EmptyFiles = {}
    /\ EmptyFiles # {} => transport = "default" /\ response.status # 500
    /\ EmptyFiles = {} /\ pc \in {"constructed", "partitioned", "returned"}
          => transport = "tls"

\* a request served over the unchanged transport for an endpoint that
\* names the certificate and the key and no CA file
C35_Witness ==
    /\ EmptyFiles = {"CAFile"}
    /\ pc = "done"
    /\ response.status = 202
    /\ sent # EmptyBag
    /\ transport = "default"

(***************************************************************************)
(* Package logger: the level read from LOG_LEVEL and the five emitters.    *)
(* cfg holds the environment of the process, warns the calls made so far   *)
(* (the severity of each, in order), logs the records handed to            *)
(* logger.Emit.                                                            *)
(***************************************************************************)
\* go.opentelemetry.io/otel/log: the severity numbers
SeverityTrace == 1
SeverityDebug == 5
SeverityInfo  == 9
SeverityWarn  == 13
SeverityError == 17

getLogLevelFromEnv(env) ==
    CASE env.LOG_LEVEL = "DEBUG" -> SeverityDebug
      [] env.LOG_LEVEL = "INFO"  -> SeverityInfo
      [] env.LOG_LEVEL = "WARN"  -> SeverityWarn
      [] env.LOG_LEVEL = "ERROR" -> SeverityError
      [] OTHER                   -> SeverityInfo

\* the values LOG_LEVEL takes: the five documented ones, an unknown one
\* and the unset variable
LogLevels == {"DEBUG", "TRACE", "INFO", "WARN", "ERROR", "UNKNOWN", ""}

InitLogger ==
    /\ server = Serving
    /\ ctxDone = FALSE
    /\ cfg \in [LOG_LEVEL : LogLevels]
    /\ body = ValidBody(<<>>)
    /\ heap = <<>>
    /\ resources = <<>>
    /\ pc = "start"
    /\ tenantMap = EmptyMap
    /\ warns = <<>>
    /\ toSpawn = {}
    /\ waitGroup = 0
    /\ wpc = NoWorkers
    /\ sendRet = NoWorkers
    /\ sent = EmptyBag
    /\ proxyRecordsMetric = <<>>
    /\ proxyRequestsMetric = <<>>
    /\ proxyLatencyMetric = <<>>
    /\ proxyResponseCodeMetric = <<>>
    /\ logs = EmptyBag
    /\ span = NoWorkers
    /\ lateRecords = 0
    /\ dispatchRet = "none"
    /\ transport = "default"
    /\ response = [status |-> 0, body |-> ""]

\* a call of one of the emitters that return early above their severity
Filtered(level, severity) ==
    /\ Len(warns) < MaxItems
    /\ warns' = Append(warns, level)
    /\ logs' = IF getLogLevelFromEnv(cfg) > severity THEN logs
               ELSE Emit(logs, level, "msg")
    /\ UNCHANGED <<server, ctxDone, cfg, body, heap, resources, pc, tenantMap,
                   toSpawn, waitGroup, wpc, sendRet, sent, proxyRecordsMetric,
                   proxyRequestsMetric, proxyLatencyMetric,
                   proxyResponseCodeMetric, span, lateRecords, dispatchRet,
                   transport, response>>

Debug == Filtered("DEBUG", SeverityDebug)

Trace == Filtered("TRACE", SeverityTrace)

Info == Filtered("INFO", SeverityInfo)

Warn == Filtered("WARN", SeverityWarn)

\* Error emits whatever the level is
Error ==
    /\ Len(warns) < MaxItems
    /\ warns' = Append(warns, "ERROR")
    /\ logs' = Emit(logs, "ERROR", "msg")
    /\ UNCHANGED <<server, ctxDone, cfg, body, heap, resources, pc, tenantMap,
                   toSpawn, waitGroup, wpc, sendRet, sent, proxyRecordsMetric,
                   proxyRequestsMetric, proxyLatencyMetric,
                   proxyResponseCodeMetric, span, lateRecords, dispatchRet,
                   transport, response>>

NextLogger == Debug \/ Trace \/ Info \/ Warn \/ Error

SpecLogger == InitLogger /\ [][NextLogger]_vars

\* the documented order of the levels, lowest first
LevelOrder == <<"TRACE", "DEBUG", "INFO", "WARN", "ERROR">>

RankOf(level) == CHOOSE i \in 1..Len(LevelOrder) : LevelOrder[i] = level

\* the level in force: the documented value of LOG_LEVEL, INFO otherwise
LevelInForce ==
    IF \E i \in 1..Len(LevelOrder) : LevelOrder[i] = cfg.LOG_LEVEL
    THEN cfg.LOG_LEVEL ELSE "INFO"

CallsAt(level) == Cardinality({i \in 1..Len(warns) : warns[i] = level})

EmittedAt(level) ==
    IF LogRecord(level, "msg") \in BagToSet(logs)
    THEN CopiesIn(LogRecord(level, "msg"), logs) ELSE 0

\* C36: every message of the level in force or above is emitted, every
\* message below it is suppressed; the level in force is the value of
\* LOG_LEVEL when that is DEBUG, TRACE, INFO, WARN or ERROR and INFO
\* otherwise, so that ERROR messages are always emitted.
C36_LevelFiltering ==
    \A i \in 1..Len(LevelOrder) :
        EmittedAt(LevelOrder[i]) =
            IF i >= RankOf(LevelInForce) THEN CallsAt(LevelOrder[i]) ELSE 0

====
